---- MODULE Spec2Model ----
(***************************************************************************)
(* Verification model of the dual-tree machinery of mlpack:                *)
(*   - DTNNKMeans (dtnn_kmeans_impl.hpp): Iterate, UpdateTree,             *)
(*     ExtractCentroids, CoalesceTree, DecoalesceTree;                     *)
(*   - DualTreeKMeansRules (dual_tree_kmeans_rules_impl.hpp);              *)
(*   - LMNN Constraints and LMNNTargetsAndImpostorsRules.                  *)
(* Points are one-dimensional integers, so the Euclidean metric is the     *)
(* absolute difference and a hyper-rectangle bound is an interval.         *)
(***************************************************************************)
EXTENDS Integers, Sequences, FiniteSets, TLC

VARIABLES ct, lm, km, rl

vars == <<ct, lm, km, rl>>

(***************************************************************************)
(* Binary trees.  Nodes carry heap numbers: the root is 1 and the true      *)
(* children of node n are 2n and 2n+1.  NULL is the null pointer.          *)
(***************************************************************************)
NULL == 0

\* Largest number of leaves of the trees given to CoalesceTree.
MaxLeaves == 5

RECURSIVE ShapesAt(_, _)
\* The node sets of the binary trees rooted at `root` with `leaves` leaves,
\* every internal node having exactly two children (BinarySpaceTree).
ShapesAt(root, leaves) ==
  IF leaves = 1 THEN {{root}}
  ELSE UNION {{{root} \cup a \cup b : a \in ShapesAt(2 * root, l),
                                      b \in ShapesAt(2 * root + 1, leaves - l)}
              : l \in 1..(leaves - 1)}

TreeShapes == UNION {ShapesAt(1, l) : l \in 1..MaxLeaves}

\* The pointers a tree has right after construction.
TrueParentOf(S, n) == IF n = 1 THEN NULL ELSE n \div 2
TrueChildOf(S, n, i) == IF 2 * n + i \in S THEN 2 * n + i ELSE NULL

\* The DTNN statistic saves the node's links when the tree is built.
BuiltPointers(S) ==
  [Parent |-> [n \in S |-> TrueParentOf(S, n)],
   Child  |-> [n \in S |-> [i \in {0, 1} |-> TrueChildOf(S, n, i)]]]

\* BinarySpaceTree::NumChildren(): counts the non-null child pointers.
NumChildren(p, node) ==
  IF p.Child[node][0] # NULL /\ p.Child[node][1] # NULL THEN 2
  ELSE IF p.Child[node][0] # NULL THEN 1
  ELSE 0

\* node.Child(i)
Child(p, node, i) == p.Child[node][i]

\* The relinking with the Parent of the child left as it was.
RelinkSlotOnly(p, node, child, i) ==
  [p EXCEPT !.Child[p.Parent[node]][child] = p.Child[node][i]]

\* The relinking with the slot of the parent left as it was.
RelinkParentOnly(p, node, child, i) ==
  [p EXCEPT !.Parent[p.Child[node][i]] = p.Parent[node]]

\* Link `c` below the parent of `node`, in the slot `child` that node held.
Relink(p, node, child, i) ==
  LET c  == p.Child[node][i]
      p1 == [p EXCEPT !.Parent[c] = p.Parent[node]]
  IN  [p1 EXCEPT !.Child[p1.Parent[node]][child] = p1.Child[node][i]]

\* CoalesceTree that leaves every link as it is.
CoalesceNothing(p, sp, node, child) == p

RECURSIVE CoalesceTree(_, _, _, _)
\* DTNNKMeans::CoalesceTree(node, child): sp is the StaticPruned flag of
\* every node, p the tree's current pointers; the result is the pointers
\* after the call.
CoalesceTree(p, sp, node, child) ==
  IF NumChildren(p, node) = 0 THEN p
  ELSE IF p.Parent[node] # NULL THEN
    IF sp[Child(p, node, 0)] /\ ~sp[Child(p, node, 1)] THEN
      Relink(CoalesceTree(p, sp, Child(p, node, 1), 1), node, child, 1)
    ELSE IF ~sp[Child(p, node, 0)] /\ sp[Child(p, node, 1)] THEN
      Relink(CoalesceTree(p, sp, Child(p, node, 0), 0), node, child, 0)
    ELSE IF ~sp[Child(p, node, 0)] /\ ~sp[Child(p, node, 1)] THEN
      LET p1 == CoalesceTree(p, sp, Child(p, node, 0), 0)
      IN  CoalesceTree(p1, sp, Child(p1, node, 1), 1)
    ELSE p
  ELSE
    LET p1 == CoalesceTree(p, sp, Child(p, node, 0), 0)
    IN  CoalesceTree(p1, sp, Child(p1, node, 1), 1)

\* The three assignments that open DecoalesceTree.
RestoreLinks(p, saved, node) ==
  [p EXCEPT !.Parent[node] = saved.Parent[node],
            !.Child[node] = saved.Child[node]]

RECURSIVE DecoalesceOneSide(_, _, _)
\* DecoalesceTree with the recursion into Child(1) left out.
DecoalesceOneSide(p, saved, node) ==
  LET p1 == RestoreLinks(p, saved, node)
  IN  IF NumChildren(p1, node) > 0
      THEN DecoalesceOneSide(p1, saved, Child(p1, node, 0))
      ELSE p1

RECURSIVE DecoalesceTree(_, _, _)
\* DTNNKMeans::DecoalesceTree(node): `saved` holds the TrueParent, TrueLeft
\* and TrueRight saved in every node's statistic.
DecoalesceTree(p, saved, node) ==
  LET p1 == RestoreLinks(p, saved, node)
  IN  IF NumChildren(p1, node) > 0
      THEN LET p2 == DecoalesceTree(p1, saved, Child(p1, node, 0))
           IN  DecoalesceTree(p2, saved, Child(p2, node, 1))
      ELSE p1

RECURSIVE ReachableFrom(_, _)
\* The nodes met from `node` by following child pointers, node included.
ReachableFrom(p, node) ==
  {node} \cup UNION {ReachableFrom(p, Child(p, node, i)) :
                       i \in {j \in {0, 1} : Child(p, node, j) # NULL}}

(***************************************************************************)
(* Specification SpecTree: a tree of any shape whose nodes carry any       *)
(* StaticPruned flags is coalesced from the root and then decoalesced.     *)
(***************************************************************************)
CtOff == [pc |-> "off"]

CtInit ==
  \E S \in TreeShapes : \E sp \in [S -> BOOLEAN] :
    ct = [pc |-> "built", nodes |-> S, StaticPruned |-> sp,
          saved |-> BuiltPointers(S), ptr |-> BuiltPointers(S),
          coalesced |-> BuiltPointers(S)]

CtCoalesce ==
  /\ ct.pc = "built"
  /\ LET p == CoalesceTree(ct.ptr, ct.StaticPruned, 1, 0)
     IN  ct' = [ct EXCEPT !.pc = "coalesced", !.ptr = p, !.coalesced = p]
  /\ UNCHANGED <<lm, km, rl>>

CtDecoalesce ==
  /\ ct.pc = "coalesced"
  /\ ct' = [ct EXCEPT !.pc = "decoalesced",
                      !.ptr = DecoalesceTree(ct.ptr, ct.saved, 1)]
  /\ UNCHANGED <<lm, km, rl>>

LmOff == [pc |-> "off"]
KmOff == [pc |-> "off"]
RlOff == [pc |-> "off"]

InitTree == CtInit /\ lm = LmOff /\ km = KmOff /\ rl = RlOff
NextTree == CtCoalesce \/ CtDecoalesce
SpecTree == InitTree /\ [][NextTree]_vars

\* C2: after CoalesceTree on the root followed by DecoalesceTree on the
\* root, every node's Parent, left-child and right-child pointer is the
\* node it pointed to before CoalesceTree.
C2_RoundTrip ==
  ct.pc = "decoalesced" => ct.ptr = ct.saved

\* A round trip in which CoalesceTree did splice nodes out.
C2_Witness ==
  /\ ct.pc = "decoalesced"
  /\ ct.coalesced # ct.saved
  /\ \E n \in ct.nodes : ct.coalesced.Parent[n] # ct.saved.Parent[n]
  /\ \E n \in ct.nodes : ct.coalesced.Child[n] # ct.saved.Child[n]

\* A node CoalesceTree is to splice out: not the root, two children, exactly
\* one of them statically pruned.
Spliceable(S, sp, n) ==
  /\ n # 1
  /\ 2 * n \in S
  /\ sp[2 * n] # sp[2 * n + 1]

\* The child of a spliceable node that is not statically pruned.
OtherChild(sp, n) == IF sp[2 * n] THEN 2 * n + 1 ELSE 2 * n

RECURSIVE Replacement(_, _, _)
\* The node that stands in the slot of n once n and the nodes that replace
\* it have been spliced out.
Replacement(S, sp, n) ==
  IF Spliceable(S, sp, n) THEN Replacement(S, sp, OtherChild(sp, n)) ELSE n

\* A node that is only recursed into: the root, or a node with two children
\* neither of which is statically pruned.
RecursedInto(S, sp, n) ==
  /\ 2 * n \in S
  /\ n = 1 \/ (~sp[2 * n] /\ ~sp[2 * n + 1])

RECURSIVE CalledOn(_, _, _)
\* The nodes CoalesceTree is called on, from n downwards.
CalledOn(S, sp, n) ==
  {n} \cup
    IF RecursedInto(S, sp, n) THEN CalledOn(S, sp, 2 * n) \cup CalledOn(S, sp, 2 * n + 1)
    ELSE IF Spliceable(S, sp, n) THEN CalledOn(S, sp, OtherChild(sp, n))
    ELSE {}

\* C16: after CoalesceTree on the root, a node that was called on and is not
\* the root and has exactly one statically pruned child is gone from the
\* tree; the root and every node called on that has no pruned child keep
\* their place and hold, in each child slot, the node that replaces the
\* child built there (the child itself unless it was spliced out), whose
\* Parent they are; every other node keeps the links it was built with, and
\* the root's own Parent stays NULL.
C16_SplicesExactlyOnePrunedChild ==
  ct.pc = "coalesced" =>
    LET S  == ct.nodes
        sp == ct.StaticPruned
        called == CalledOn(S, sp, 1)
    IN  /\ ct.ptr.Parent[1] = NULL
        /\ \A n \in called :
             /\ Spliceable(S, sp, n) => n \notin ReachableFrom(ct.ptr, 1)
             /\ RecursedInto(S, sp, n) =>
                  /\ n \in ReachableFrom(ct.ptr, 1)
                  /\ \A i \in {0, 1} :
                       LET c == Replacement(S, sp, 2 * n + i)
                       IN  /\ Child(ct.ptr, n, i) = c
                           /\ ct.ptr.Parent[c] = n
             /\ (~Spliceable(S, sp, n) /\ ~RecursedInto(S, sp, n)) =>
                  ct.ptr.Child[n] = ct.saved.Child[n]
        /\ \A n \in S \ called :
             /\ ct.ptr.Child[n] = ct.saved.Child[n]
             /\ ct.ptr.Parent[n] = ct.saved.Parent[n]

\* CoalesceTree ran on a tree in which a node with one pruned child hangs
\* below another such node, a node without pruned children was recursed
\* into, and the root has a statically pruned child.
C16_Witness ==
  /\ ct.pc = "coalesced"
  /\ \E n \in CalledOn(ct.nodes, ct.StaticPruned, 1) :
       /\ Spliceable(ct.nodes, ct.StaticPruned, n)
       /\ Spliceable(ct.nodes, ct.StaticPruned, OtherChild(ct.StaticPruned, n))
  /\ \E n \in CalledOn(ct.nodes, ct.StaticPruned, 1) \ {1} :
       RecursedInto(ct.nodes, ct.StaticPruned, n)
  /\ ct.StaticPruned[2] \/ ct.StaticPruned[3]

\* A statically pruned node has statically pruned children.
ParentImpliesChildren(S, sp) ==
  \A n \in S : (sp[n] /\ 2 * n \in S) => (sp[2 * n] /\ sp[2 * n + 1])

\* C28: after CoalesceTree on the root of a tree whose StaticPruned flags
\* pass from every pruned node to its children, every node reachable from
\* the root through child pointers is the Parent of the nodes in its child
\* slots, every reachable node that was built with children has two
\* children, and every leaf that is not statically pruned is reachable.
C28_CoalescedTreeIsConsistent ==
  (ct.pc = "coalesced" /\ ParentImpliesChildren(ct.nodes, ct.StaticPruned)) =>
    LET reach == ReachableFrom(ct.ptr, 1)
    IN  /\ \A n \in reach :
             /\ \A i \in {0, 1} :
                  Child(ct.ptr, n, i) # NULL => ct.ptr.Parent[Child(ct.ptr, n, i)] = n
             /\ 2 * n \in ct.nodes => NumChildren(ct.ptr, n) = 2
        /\ \A n \in ct.nodes :
             (2 * n \notin ct.nodes /\ ~ct.StaticPruned[n]) => n \in reach

\* CoalesceTree ran on such a tree and moved a leaf that is not pruned up
\* by two levels, past two nodes that each had one pruned child.
C28_Witness ==
  /\ ct.pc = "coalesced"
  /\ ParentImpliesChildren(ct.nodes, ct.StaticPruned)
  /\ \E n \in ct.nodes :
       /\ 2 * n \notin ct.nodes
       /\ ~ct.StaticPruned[n]
       /\ n \in ReachableFrom(ct.ptr, 1)
       /\ n >= 8
       /\ ct.ptr.Parent[n] = ct.saved.Parent[ct.saved.Parent[ct.saved.Parent[n]]]

(***************************************************************************)
(* Numbers.  DBL_MAX is the largest double: adding or subtracting a       *)
(* distance of the model leaves it unchanged, as it does in IEEE           *)
(* arithmetic.  SIZE_MAX stands for size_t(-1), the largest size_t.         *)
(***************************************************************************)
DBL_MAX == 1000000
SIZE_MAX == 2147483647
\* The content of a member that no statement has assigned yet.  It stands
\* for every word the memory can hold and is no word itself, so that a read
\* of such a member cannot pass for the read of a value.
Indeterminate == -1

Abs(x) == IF x < 0 THEN 0 - x ELSE x
Max2(a, b) == IF a < b THEN b ELSE a
Min2(a, b) == IF b < a THEN b ELSE a
\* a + b and a - b on doubles.
DAdd(a, b) == IF a = DBL_MAX \/ b = DBL_MAX THEN DBL_MAX ELSE a + b
DSub(a, b) == IF a = DBL_MAX THEN DBL_MAX ELSE a - b
\* metric.Evaluate on one-dimensional points (EuclideanDistance).
Metric(a, b) == Abs(a - b)

(***************************************************************************)
(* kd-trees (BinarySpaceTree with HRectBound and the midpoint split) over  *)
(* one-dimensional points.  A node is a range begin .. begin+count-1 of    *)
(* the reordered dataset (points are numbered from 1) and its bound is the *)
(* interval [lo, hi].  perm[new] is the original index of the point that   *)
(* the tree moved to position new (oldFromNew).                            *)
(***************************************************************************)
Swap(perm, i, j) == [perm EXCEPT ![i] = perm[j], ![j] = perm[i]]
\* The midpoint split sends a point left when it is below the midpoint.
AssignToLeftNode(data, perm, i, twiceSplit) == 2 * data[perm[i]] < twiceSplit

RECURSIVE SkipLeft(_, _, _, _, _)
SkipLeft(data, perm, left, right, s) ==
  IF left <= right /\ AssignToLeftNode(data, perm, left, s)
  THEN SkipLeft(data, perm, left + 1, right, s)
  ELSE left

RECURSIVE SkipRight(_, _, _, _, _)
SkipRight(data, perm, left, right, s) ==
  IF left <= right /\ ~AssignToLeftNode(data, perm, right, s)
  THEN SkipRight(data, perm, left, right - 1, s)
  ELSE right

RECURSIVE SplitLoop(_, _, _, _, _)
SplitLoop(data, perm, left, right, s) ==
  IF left <= right
  THEN LET p1 == Swap(perm, left, right)
           l1 == SkipLeft(data, p1, left, right, s)
           r1 == SkipRight(data, p1, l1, right, s)
       IN  SplitLoop(data, p1, l1, r1, s)
  ELSE [perm |-> perm, at |-> left]

\* PerformSplit: the in-place two-pointer partition of a node's points.
PerformSplit(data, perm, begin, count, s) ==
  LET l0 == SkipLeft(data, perm, begin, begin + count - 1, s)
      r0 == SkipRight(data, perm, l0, begin + count - 1, s)
  IN  SplitLoop(data, perm, l0, r0, s)

RangeLo(data, perm, begin, count) ==
  LET xs == {data[perm[i]] : i \in begin..(begin + count - 1)}
  IN  CHOOSE x \in xs : \A y \in xs : x <= y

RangeHi(data, perm, begin, count) ==
  LET xs == {data[perm[i]] : i \in begin..(begin + count - 1)}
  IN  CHOOSE x \in xs : \A y \in xs : y <= x

RECURSIVE SplitNode(_, _, _, _, _, _)
\* BinarySpaceTree::SplitNode: a node with at most leafSize points, or with
\* a bound of width 0, is a leaf; the left child is built before the right.
SplitNode(data, st, begin, count, id, leafSize) ==
  LET lo == RangeLo(data, st.perm, begin, count)
      hi == RangeHi(data, st.perm, begin, count)
      me == id :> [begin |-> begin, count |-> count, lo |-> lo, hi |-> hi]
  IN  IF count <= leafSize \/ lo = hi
      THEN [perm |-> st.perm, nodes |-> st.nodes @@ me]
      ELSE LET sp == PerformSplit(data, st.perm, begin, count, lo + hi)
               l  == SplitNode(data, [perm |-> sp.perm, nodes |-> st.nodes @@ me],
                               begin, sp.at - begin, 2 * id, leafSize)
           IN  SplitNode(data, l, sp.at, begin + count - sp.at, 2 * id + 1, leafSize)

\* TreeType(dataset, oldFromNew, newFromOld)
BuildTree(data, leafSize) ==
  SplitNode(data, [perm |-> [i \in 1..Len(data) |-> i], nodes |-> <<>>],
            1, Len(data), 1, leafSize)

IsLeaf(T, n) == 2 * n \notin DOMAIN T
Left(n) == 2 * n
Right(n) == 2 * n + 1
ParentNode(n) == IF n = 1 THEN NULL ELSE n \div 2
\* The points held by the node itself: only leaves hold points.
NodePoints(T, n) ==
  IF IsLeaf(T, n) THEN T[n].begin..(T[n].begin + T[n].count - 1) ELSE {}
Descendants(T, n) == T[n].begin..(T[n].begin + T[n].count - 1)
NumDescendants(T, n) == T[n].count

\* HRectBound in one dimension.
BoundMinDistancePoint(b, x) == Max2(0, Max2(b.lo - x, x - b.hi))
BoundMaxDistancePoint(b, x) == Max2(Abs(x - b.lo), Abs(x - b.hi))
BoundMinDistance(a, b) == Max2(0, Max2(a.lo - b.hi, b.lo - a.hi))
BoundMaxDistance(a, b) == Max2(Abs(a.hi - b.lo), Abs(b.hi - a.lo))
\* Coordinates are even, so centres and half widths are integers.
Center(T, n) == (T[n].lo + T[n].hi) \div 2
FurthestDescendantDistance(T, n) == (T[n].hi - T[n].lo) \div 2
MinimumBoundDistance(T, n) == (T[n].hi - T[n].lo) \div 2
ParentDistance(T, n) ==
  IF n = 1 THEN 0 ELSE Abs(Center(T, n) - Center(T, ParentNode(n)))

SetMax(S) == CHOOSE x \in S : \A y \in S : y <= x
SetMin(S) == CHOOSE x \in S : \A y \in S : x <= y

(***************************************************************************)
(* LMNN: Constraints and LMNNTargetsAndImpostorsRules.                     *)
(***************************************************************************)
\* Number of points of the labelled datasets.
LmnnPoints == 4
LmnnCoords == {0, 2, 4, 8}
LmnnK == {1, 2}
\* maxLeafSize of the tree, scaled down with the datasets.
LmnnLeafSize == 1

\* Labels are 0 .. numClasses-1 with at most two classes.
LmnnLabelings ==
  {l \in [1..LmnnPoints -> {0, 1}] :
     (\E i \in 1..LmnnPoints : l[i] = 1) => (\E i \in 1..LmnnPoints : l[i] = 0)}

\* arma::min(arma::histc(labels, arma::unique(labels)))
MinCount(labels) ==
  LET u == {labels[i] : i \in DOMAIN labels}
      cnt(c) == Cardinality({i \in DOMAIN labels : labels[i] = c})
  IN  CHOOSE m \in {cnt(c) : c \in u} : \A c \in u : m <= cnt(c)

\* The test of the constructor written as its error message states it.
CtorRejectsStrict(labels, k) == MinCount(labels) <= k

\* Constraints::Constraints: the test that makes it stop with Log::Fatal.
CtorRejects(labels, k) == MinCount(labels) < k

\* Candidate lists.  A std::priority_queue ordered by CandidateCmp keeps
\* the largest distance on top.  It is held here sorted by distance with
\* the top last; of two candidates at the same distance the one pushed
\* first is nearer the top, which is the order std::push_heap and
\* std::pop_heap give to lists of at most two candidates.
Candidate(d, i) == [first |-> d, second |-> i]
CandidateCmp(c1, c2) == ~(c2.first <= c1.first)
PqTop(pq) == pq[Len(pq)]
PqPop(pq) == SubSeq(pq, 1, Len(pq) - 1)
PqPush(pq, c) ==
  LET n == Cardinality({i \in 1..Len(pq) : CandidateCmp(pq[i], c)})
  IN  SubSeq(pq, 1, n) \o <<c>> \o SubSeq(pq, n + 1, Len(pq))

\* InsertNeighbor without the comparison with the top.
InsertCandidateAlways(pq, neighbor, distance) ==
  PqPush(PqPop(pq), Candidate(distance, neighbor))

\* InsertNeighbor and InsertImpostor, on one candidate list.
InsertCandidate(pq, neighbor, distance) ==
  IF CandidateCmp(Candidate(distance, neighbor), PqTop(pq))
  THEN PqPush(PqPop(pq), Candidate(distance, neighbor))
  ELSE pq

\* The rules cast `this` to a node pointer to have a pointer that is
\* neither NULL nor a node of the tree.
RulesThis == -2

\* TraversalInfo as the rules constructor leaves it.
InitialTraversalInfo ==
  [lastQueryNode |-> RulesThis, lastReferenceNode |-> RulesThis, lastScore |-> 0]

\* The k-th best neighbor or impostor distance of a query point so far.
BestDistance(s, q) ==
  Max2(PqTop(s.candidateNeighbors[q]).first, PqTop(s.candidateImpostors[q]).first)

\* The value BaseCase returns: the cached distance for the pair evaluated
\* last, 0 for a point against itself, the distance otherwise.
LmnnBaseCaseValue(s, queryIndex, referenceIndex) ==
  IF s.lastQueryIndex = queryIndex /\ s.lastReferenceIndex = referenceIndex
  THEN s.lastBaseCase
  ELSE IF queryIndex = referenceIndex THEN 0
  ELSE Metric(s.tdata[queryIndex], s.tdata[referenceIndex])

\* BaseCase without the comparison of the point against itself.
LmnnBaseCaseSelf(s, queryIndex, referenceIndex) ==
  IF s.lastQueryIndex = queryIndex /\ s.lastReferenceIndex = referenceIndex THEN s
  ELSE
    LET distance == Metric(s.tdata[queryIndex], s.tdata[referenceIndex])
        s1 == IF s.sortedLabels[queryIndex] = s.sortedLabels[referenceIndex]
              THEN [s EXCEPT !.candidateNeighbors[queryIndex] =
                                InsertCandidate(@, referenceIndex, distance)]
              ELSE [s EXCEPT !.candidateImpostors[queryIndex] =
                                InsertCandidate(@, referenceIndex, distance)]
    IN  [s1 EXCEPT !.lastQueryIndex = queryIndex,
                   !.lastReferenceIndex = referenceIndex,
                   !.lastBaseCase = distance]

\* LMNNTargetsAndImpostorsRules::BaseCase
LmnnBaseCase(s, queryIndex, referenceIndex) ==
  IF s.lastQueryIndex = queryIndex /\ s.lastReferenceIndex = referenceIndex THEN s
  ELSE IF queryIndex = referenceIndex THEN s
  ELSE
    LET distance == Metric(s.tdata[queryIndex], s.tdata[referenceIndex])
        s1 == IF s.sortedLabels[queryIndex] = s.sortedLabels[referenceIndex]
              THEN [s EXCEPT !.candidateNeighbors[queryIndex] =
                                InsertCandidate(@, referenceIndex, distance)]
              ELSE [s EXCEPT !.candidateImpostors[queryIndex] =
                                InsertCandidate(@, referenceIndex, distance)]
    IN  [s1 EXCEPT !.lastQueryIndex = queryIndex,
                   !.lastReferenceIndex = referenceIndex,
                   !.lastBaseCase = distance]

\* LMNNTargetsAndImpostorsRules::Score(queryIndex, referenceNode)
LmnnScorePoint(s, queryIndex, referenceNode) ==
  LET distance == BoundMinDistancePoint(s.T[referenceNode], s.tdata[queryIndex])
  IN  IF distance <= BestDistance(s, queryIndex) THEN distance ELSE DBL_MAX

\* LMNNTargetsAndImpostorsRules::Rescore(queryIndex, referenceNode, oldScore)
LmnnRescorePoint(s, queryIndex, oldScore) ==
  IF oldScore = DBL_MAX THEN oldScore
  ELSE IF oldScore <= BestDistance(s, queryIndex) THEN oldScore ELSE DBL_MAX

\* CalculateBound from the points the node holds itself alone, without
\* the bounds cached in its children.
CalculateBoundOwnPoints(s, queryNode) ==
  LET pts   == SetMax({0} \cup {BestDistance(s, p) : p \in NodePoints(s.T, queryNode)})
      par   == IF ParentNode(queryNode) # NULL
                  /\ s.Bound[ParentNode(queryNode)] <= pts
               THEN s.Bound[ParentNode(queryNode)] ELSE pts
  IN  IF s.Bound[queryNode] <= par THEN s.Bound[queryNode] ELSE par

\* LMNNTargetsAndImpostorsRules::CalculateBound: the value it returns and
\* caches in queryNode.Stat().Bound().
CalculateBound(s, queryNode) ==
  LET pts   == SetMax({0} \cup {BestDistance(s, p) : p \in NodePoints(s.T, queryNode)})
      kids  == IF IsLeaf(s.T, queryNode) THEN pts
               ELSE Max2(pts, Max2(s.Bound[Left(queryNode)], s.Bound[Right(queryNode)]))
      par   == IF ParentNode(queryNode) # NULL
                  /\ s.Bound[ParentNode(queryNode)] <= kids
               THEN s.Bound[ParentNode(queryNode)] ELSE kids
  IN  IF s.Bound[queryNode] <= par THEN s.Bound[queryNode] ELSE par

\* LMNNTargetsAndImpostorsRules::Score(queryNode, referenceNode)
LmnnScoreNode(s, queryNode, referenceNode) ==
  LET bestDistance == CalculateBound(s, queryNode)
      s1 == [s EXCEPT !.Bound[queryNode] = bestDistance]
      queryParentDist == ParentDistance(s.T, queryNode)
      queryDescDist == FurthestDescendantDistance(s.T, queryNode)
      refParentDist == ParentDistance(s.T, referenceNode)
      refDescDist == FurthestDescendantDistance(s.T, referenceNode)
      score == s.ti.lastScore
      adj0 == IF score = 0 THEN 0
              ELSE DAdd(DAdd(score, MinimumBoundDistance(s.T, s.ti.lastQueryNode)),
                        MinimumBoundDistance(s.T, s.ti.lastReferenceNode))
      adj1 == IF s.ti.lastQueryNode = ParentNode(queryNode)
              THEN Max2(DSub(adj0, queryParentDist + queryDescDist), 0)
              ELSE IF s.ti.lastQueryNode = queryNode
              THEN Max2(DSub(adj0, queryDescDist), 0)
              ELSE 0
      adjustedScore ==
              IF s.ti.lastReferenceNode = ParentNode(referenceNode)
              THEN Max2(DSub(adj1, refParentDist + refDescDist), 0)
              ELSE IF s.ti.lastReferenceNode = referenceNode
              THEN Max2(DSub(adj1, refDescDist), 0)
              ELSE 0
      distance == BoundMinDistance(s.T[referenceNode], s.T[queryNode])
  IN  IF ~(adjustedScore <= bestDistance) THEN [st |-> s1, score |-> DBL_MAX]
      ELSE IF distance <= bestDistance
      THEN [st |-> [s1 EXCEPT !.ti = [lastQueryNode |-> queryNode,
                                      lastReferenceNode |-> referenceNode,
                                      lastScore |-> distance]],
            score |-> distance]
      ELSE [st |-> s1, score |-> DBL_MAX]

\* Rescore(queryNode, ...) that hands the old score back unchanged.
LmnnRescoreNodeKeep(s, queryNode, oldScore) ==
  [st |-> s, score |-> oldScore]

\* LMNNTargetsAndImpostorsRules::Rescore(queryNode, referenceNode, oldScore)
LmnnRescoreNode(s, queryNode, oldScore) ==
  IF oldScore = DBL_MAX \/ oldScore = 0 THEN [st |-> s, score |-> oldScore]
  ELSE LET bestDistance == CalculateBound(s, queryNode)
       IN  [st |-> [s EXCEPT !.Bound[queryNode] = bestDistance],
            score |-> IF oldScore <= bestDistance THEN oldScore ELSE DBL_MAX]

(***************************************************************************)
(* The depth-first dual-tree traverser of BinarySpaceTree, as a stack of   *)
(* the calls it still has to make to the rules.  Every frame carries the   *)
(* traversal info the traverser restores before the call.                  *)
(***************************************************************************)
Frame(op, q, r, info, score, sinfo) ==
  [op |-> op, q |-> q, r |-> r, info |-> info, score |-> score, sinfo |-> sinfo]

\* Traverse(queryNode, referenceNode): the first calls of the visit.  Q is
\* the tree of the query node, R the tree of the reference node.
Expand(Q, R, q, r, info) ==
  IF IsLeaf(Q, q) /\ IsLeaf(R, r)
  THEN [i \in 1..Q[q].count |-> Frame("pscore", Q[q].begin + i - 1, r, info, 0, info)]
  ELSE IF ~IsLeaf(Q, q)
          /\ (IsLeaf(R, r) \/ NumDescendants(Q, q) > 3 * NumDescendants(R, r))
  THEN <<Frame("qscore", Left(q), r, info, 0, info),
         Frame("qscore", Right(q), r, info, 0, info)>>
  ELSE IF IsLeaf(Q, q)
  THEN <<Frame("s1", q, r, info, 0, info)>>
  ELSE <<Frame("s1", Left(q), r, info, 0, info),
         Frame("s1", Right(q), r, info, 0, info)>>

\* The order in which the two reference children are visited once both
\* have been scored: the better score first, the other after a Rescore.
RecursionOrder(f, leftScore, leftInfo, rightScore, rightInfo) ==
  IF leftScore < rightScore
  THEN <<Frame("visit", f.q, Left(f.r), leftInfo, 0, leftInfo),
         Frame("resc", f.q, Right(f.r), rightInfo, rightScore, rightInfo)>>
  ELSE IF rightScore < leftScore
  THEN <<Frame("visit", f.q, Right(f.r), rightInfo, 0, rightInfo),
         Frame("resc", f.q, Left(f.r), leftInfo, leftScore, leftInfo)>>
  ELSE IF leftScore = DBL_MAX THEN <<>>
  ELSE <<Frame("visit", f.q, Left(f.r), leftInfo, 0, leftInfo),
         Frame("resc", f.q, Right(f.r), rightInfo, rightScore, rightInfo)>>

\* Replace a leading "visit" frame by the first calls of that visit.
Settle(Q, R, stack) ==
  IF stack # <<>> /\ stack[1].op = "visit"
  THEN Expand(Q, R, stack[1].q, stack[1].r, stack[1].info) \o Tail(stack)
  ELSE stack

LmInit ==
  \E d \in [1..LmnnPoints -> LmnnCoords], l \in LmnnLabelings, k \in LmnnK :
    lm = [pc |-> "new", dataset |-> d, labels |-> l, k |-> k]

\* Constraints::Constraints(dataset, labels, k)
LmConstruct ==
  /\ lm.pc = "new"
  /\ lm' = [lm EXCEPT !.pc = IF CtorRejects(lm.labels, lm.k)
                             THEN "fatal" ELSE "constructed"]
  /\ UNCHANGED <<ct, km, rl>>

\* Constraints::TargetsAndImpostors(dataset, labels, k, k, ...) up to the
\* start of the traversal: the tree, the sorted labels, the rules.
LmTargetsAndImpostors ==
  /\ lm.pc = "constructed"
  /\ LET built == BuildTree(lm.dataset, LmnnLeafSize)
         n     == Len(lm.dataset)
         def   == [j \in 1..lm.k |-> Candidate(DBL_MAX, SIZE_MAX)]
     IN  lm' = [pc |-> "traversing", dataset |-> lm.dataset, labels |-> lm.labels,
                k |-> lm.k, oldFromNew |-> built.perm, T |-> built.nodes,
                tdata |-> [i \in 1..n |-> lm.dataset[built.perm[i]]],
                sortedLabels |-> [i \in 1..n |-> lm.labels[built.perm[i]]],
                Bound |-> [x \in DOMAIN built.nodes |-> DBL_MAX],
                candidateNeighbors |-> [i \in 1..n |-> def],
                candidateImpostors |-> [i \in 1..n |-> def],
                lastQueryIndex |-> n + 1, lastReferenceIndex |-> n + 1,
                lastBaseCase |-> Indeterminate, ti |-> InitialTraversalInfo,
                stack |-> Expand(built.nodes, built.nodes, 1, 1, InitialTraversalInfo),
                numPrunes |-> 0, neighbors |-> <<>>, impostors |-> <<>>,
                heldNeighbors |-> <<>>, heldImpostors |-> <<>>]
  /\ UNCHANGED <<ct, km, rl>>

LmTop(op) == lm.pc = "traversing" /\ lm.stack # <<>> /\ lm.stack[1].op = op

\* The traverser restores the traversal info and scores one query point of
\* a leaf against the reference leaf; unless pruned, the base cases follow.
LmPointScore ==
  /\ LmTop("pscore")
  /\ LET f  == lm.stack[1]
         s0 == [lm EXCEPT !.ti = f.info]
         sc == LmnnScorePoint(s0, f.q, f.r)
         bs == [j \in 1..lm.T[f.r].count |->
                  Frame("base", f.q, lm.T[f.r].begin + j - 1, f.info, 0, f.info)]
     IN  lm' = [s0 EXCEPT !.stack = IF sc = DBL_MAX THEN Tail(lm.stack)
                                    ELSE bs \o Tail(lm.stack)]
  /\ UNCHANGED <<ct, km, rl>>

\* One BaseCase(queryIndex, referenceIndex) call.
LmBaseCase ==
  /\ LmTop("base")
  /\ LET f == lm.stack[1]
     IN  lm' = [LmnnBaseCase(lm, f.q, f.r) EXCEPT !.stack = Tail(lm.stack)]
  /\ UNCHANGED <<ct, km, rl>>

\* Descent of the query side only: Score(query child, referenceNode).
LmQueryScore ==
  /\ LmTop("qscore")
  /\ LET f   == lm.stack[1]
         res == LmnnScoreNode([lm EXCEPT !.ti = f.info], f.q, f.r)
     IN  lm' = [res.st EXCEPT
                  !.numPrunes = IF res.score = DBL_MAX THEN @ + 1 ELSE @,
                  !.stack = IF res.score = DBL_MAX THEN Tail(lm.stack)
                            ELSE Expand(lm.T, lm.T, f.q, f.r, res.st.ti) \o Tail(lm.stack)]
  /\ UNCHANGED <<ct, km, rl>>

\* Score(queryNode, left reference child); its traversal info is kept.
LmScoreLeft ==
  /\ LmTop("s1")
  /\ LET f   == lm.stack[1]
         res == LmnnScoreNode([lm EXCEPT !.ti = f.info], f.q, Left(f.r))
     IN  lm' = [res.st EXCEPT !.stack =
                  <<Frame("s2", f.q, f.r, f.info, res.score, res.st.ti)>>
                    \o Tail(lm.stack)]
  /\ UNCHANGED <<ct, km, rl>>

\* Score(queryNode, right reference child), then the better child first.
LmScoreRight ==
  /\ LmTop("s2")
  /\ LET f   == lm.stack[1]
         res == LmnnScoreNode([lm EXCEPT !.ti = f.info], f.q, Right(f.r))
     IN  lm' = [res.st EXCEPT
                  !.numPrunes = IF f.score = DBL_MAX /\ res.score = DBL_MAX
                                THEN @ + 2 ELSE @,
                  !.stack = Settle(lm.T, lm.T,
                              RecursionOrder(f, f.score, f.sinfo, res.score, res.st.ti)
                                \o Tail(lm.stack))]
  /\ UNCHANGED <<ct, km, rl>>

\* Rescore of the reference child that was put off.
LmRescore ==
  /\ LmTop("resc")
  /\ LET f   == lm.stack[1]
         res == LmnnRescoreNode(lm, f.q, f.score)
     IN  lm' = [res.st EXCEPT
                  !.numPrunes = IF res.score = DBL_MAX THEN @ + 1 ELSE @,
                  !.stack = IF res.score = DBL_MAX THEN Tail(lm.stack)
                            ELSE Expand(lm.T, lm.T, f.q, f.r, f.info) \o Tail(lm.stack)]
  /\ UNCHANGED <<ct, km, rl>>

\* Every word that is not the index of a point.
NoPoint == SIZE_MAX

\* The word w of the program as the model holds it: the index of a point,
\* counted from 1 here, or NoPoint for every other word.
WordClass(w, n) == IF w \in 0..(n - 1) THEN w + 1 ELSE NoPoint

\* What refOldFromNew[size_t(-1)] can yield for a vector of n indices.  The
\* read is of the word before the vector's buffer, which holds whatever the
\* allocator and earlier allocations left there: the index of any point, or
\* a word that is none.
GarbageWords(n) == {WordClass(w, n) : w \in 0..n}

\* refOldFromNew[index]: the placeholder index size_t(-1) reads outside the
\* vector and yields whatever lies there.
RefOldFromNew(s, index, garbage) ==
  IF index = SIZE_MAX THEN garbage ELSE s.oldFromNew[index]

\* The output column without the reverse mapping: column i holds the
\* candidates of tree point i under their tree indices.
ResultColumnUnmapped(s, lists, original, garbage) ==
  [row \in 1..s.k |-> IF lists[original][row].second = SIZE_MAX THEN garbage
                      ELSE lists[original][row].second]

\* Column queryOldFromNew[i] of the output: the candidates of tree point i
\* popped from the top, written from the last row to the first.
ResultColumn(s, lists, original, garbage) ==
  LET i == CHOOSE x \in 1..Len(s.oldFromNew) : s.oldFromNew[x] = original
  IN  [row \in 1..s.k |-> RefOldFromNew(s, lists[i][row].second, garbage)]

HasPlaceholder(s) ==
  \E i \in 1..Len(s.oldFromNew), j \in 1..s.k :
    \/ s.candidateNeighbors[i][j].second = SIZE_MAX
    \/ s.candidateImpostors[i][j].second = SIZE_MAX

\* LMNNTargetsAndImpostorsRules::GetResults
LmGetResults ==
  /\ lm.pc = "traversing" /\ lm.stack = <<>>
  /\ LET n == Len(lm.oldFromNew)
     IN  \/ \E garbage \in GarbageWords(n) :
              /\ HasPlaceholder(lm) \/ garbage = NoPoint
              /\ lm' = [lm EXCEPT
                   !.pc = "done",
                   !.neighbors = [o \in 1..n |->
                       ResultColumn(lm, lm.candidateNeighbors, o, garbage)],
                   !.impostors = [o \in 1..n |->
                       ResultColumn(lm, lm.candidateImpostors, o, garbage)],
                   !.heldNeighbors = lm.candidateNeighbors,
                   !.heldImpostors = lm.candidateImpostors,
                   !.candidateNeighbors = [i \in 1..n |-> <<>>],
                   !.candidateImpostors = [i \in 1..n |-> <<>>]]
         \/ HasPlaceholder(lm) /\ lm' = [lm EXCEPT !.pc = "crashed"]
  /\ UNCHANGED <<ct, km, rl>>

InitLMNN == LmInit /\ ct = CtOff /\ km = KmOff /\ rl = RlOff
NextLMNN ==
  \/ LmConstruct \/ LmTargetsAndImpostors \/ LmPointScore \/ LmBaseCase
  \/ LmQueryScore \/ LmScoreLeft \/ LmScoreRight \/ LmRescore \/ LmGetResults
SpecLMNN == InitLMNN /\ [][NextLMNN]_vars

\* C7: a Constraints object built with k at least the size of the smallest
\* class does not come into being: the constructor stops with a fatal error.
C7_RejectsKAtLeastMinCount ==
  (lm.pc # "new" /\ lm.k >= MinCount(lm.labels)) => lm.pc = "fatal"

\* The original points of the label of `p` other than p (same = TRUE), or
\* the points of another label (same = FALSE).
Eligible(labels, p, same) ==
  {j \in DOMAIN labels : j # p /\ ((labels[j] = labels[p]) <=> same)}

\* What GetResults wrote for the candidate in row j of the list `held` of
\* tree point i: column oldFromNew[i] holds oldFromNew[r] for the stored tree
\* index r, which is the original index of the point the traversal compared
\* with the original point of that column.
ReportedInInputOrder(s, held, out, i, j) ==
  LET r == held[i][j].second
  IN  r # SIZE_MAX =>
        /\ out[s.oldFromNew[i]][j] = s.oldFromNew[r]
        /\ s.dataset[out[s.oldFromNew[i]][j]] = s.tdata[r]
        /\ s.dataset[s.oldFromNew[i]] = s.tdata[i]
        /\ Metric(s.dataset[s.oldFromNew[i]], s.dataset[out[s.oldFromNew[i]][j]])
             = held[i][j].first

\* C13: GetResults writes the candidates held for tree point i to output
\* column queryOldFromNew[i] and reports every stored reference index r as
\* refOldFromNew[r], for neighbors and impostors alike, so that the output
\* names points and distances of the dataset in its input order.
C13_ResultsInInputOrder ==
  lm.pc = "done" =>
    \A i \in 1..Len(lm.oldFromNew), j \in 1..lm.k :
      /\ ReportedInInputOrder(lm, lm.heldNeighbors, lm.neighbors, i, j)
      /\ ReportedInInputOrder(lm, lm.heldImpostors, lm.impostors, i, j)

\* GetResults ran on full lists after a tree that moved points, and reported
\* a neighbor under an index other than the one stored.
C13_Witness ==
  /\ lm.pc = "done"
  /\ ~HasPlaceholder([lm EXCEPT !.candidateNeighbors = lm.heldNeighbors,
                                !.candidateImpostors = lm.heldImpostors])
  /\ \E i \in 1..Len(lm.oldFromNew) : lm.oldFromNew[i] # i
  /\ \E i \in 1..Len(lm.oldFromNew), j \in 1..lm.k :
       /\ lm.neighbors[lm.oldFromNew[i]][j] # lm.heldNeighbors[i][j].second
       /\ lm.impostors[lm.oldFromNew[i]][j] # lm.heldImpostors[i][j].second

\* `list` holds k nearest points of `p` among `el`: k distinct members of
\* el in order of distance, and no member left out is closer than the last.
IsKNearest(data, p, el, list) ==
  /\ \A r \in DOMAIN list : list[r] \in el
  /\ \A r1, r2 \in DOMAIN list : r1 < r2 =>
       /\ list[r1] # list[r2]
       /\ Metric(data[p], data[list[r1]]) <= Metric(data[p], data[list[r2]])
  /\ \A j \in el : (\A r \in DOMAIN list : list[r] # j) =>
       Metric(data[p], data[list[Len(list)]]) <= Metric(data[p], data[j])

\* C4: for every query point that has at least k points of its own label
\* besides itself, the k targets returned by TargetsAndImpostors are k
\* nearest points of that label, and for every query point with at least
\* k points of another label the k impostors returned are k nearest points
\* of another label (points at equal distance count as equally near).
C4_TargetsAndImpostorsAreNearest ==
  lm.pc = "done" =>
    \A p \in 1..Len(lm.dataset) :
      /\ Cardinality(Eligible(lm.labels, p, TRUE)) >= lm.k =>
           IsKNearest(lm.dataset, p, Eligible(lm.labels, p, TRUE), lm.neighbors[p])
      /\ Cardinality(Eligible(lm.labels, p, FALSE)) >= lm.k =>
           IsKNearest(lm.dataset, p, Eligible(lm.labels, p, FALSE), lm.impostors[p])

\* A finished search with two classes in which the traversal pruned a node
\* pair, points lie at equal distances, and every list is full.
C4_Witness ==
  /\ lm.pc = "done"
  /\ lm.k = 1
  /\ \A p \in 1..Len(lm.dataset) :
       /\ Cardinality(Eligible(lm.labels, p, TRUE)) >= lm.k
       /\ Cardinality(Eligible(lm.labels, p, FALSE)) >= lm.k
  /\ lm.numPrunes > 0
  /\ \E p, a, b \in 1..Len(lm.dataset) :
       /\ a # b /\ a # p /\ b # p
       /\ Metric(lm.dataset[p], lm.dataset[a]) = Metric(lm.dataset[p], lm.dataset[b])

\* The candidate list `pq` of query point q is well formed: k entries, each
\* the placeholder or a reference point other than q whose label agrees
\* with q's (same = TRUE) or differs from it (same = FALSE).
ListWellFormed(s, pq, q, same) ==
  /\ Len(pq) = s.k
  /\ \A j \in 1..Len(pq) :
       pq[j].second # SIZE_MAX =>
         /\ pq[j].second \in 1..Len(s.tdata)
         /\ pq[j].second # q
         /\ (s.sortedLabels[pq[j].second] = s.sortedLabels[q]) <=> same
         /\ pq[j].first = Metric(s.tdata[q], s.tdata[pq[j].second])

\* BaseCase(q, r) changed the list `old` into `new` only by putting r in
\* with a distance strictly below the worst distance `old` held.
EntersOnlyIfCloser(s, old, new, q, r) ==
  new # old =>
    /\ Metric(s.tdata[q], s.tdata[r]) < PqTop(old).first
    /\ \E j \in 1..Len(new) :
         new[j] = Candidate(Metric(s.tdata[q], s.tdata[r]), r)

\* C21: during the traversal every neighbor list and every impostor list
\* has exactly k entries; an entry other than the placeholder names a
\* reference point other than the query point, of the query's label in a
\* neighbor list and of another label in an impostor list; whatever
\* BaseCase call comes next, a candidate enters a list only with a distance
\* strictly below the worst distance of that list; and BaseCase(i, i)
\* changes no list and returns 0.
C21_CandidateListsWellFormed ==
  lm.pc = "traversing" =>
    \A q \in 1..Len(lm.tdata) :
      /\ ListWellFormed(lm, lm.candidateNeighbors[q], q, TRUE)
      /\ ListWellFormed(lm, lm.candidateImpostors[q], q, FALSE)
      /\ LmnnBaseCaseValue(lm, q, q) = 0
      /\ \A r \in 1..Len(lm.tdata) :
           LET s1 == LmnnBaseCase(lm, q, r)
           IN  /\ EntersOnlyIfCloser(lm, lm.candidateNeighbors[q],
                                     s1.candidateNeighbors[q], q, r)
               /\ EntersOnlyIfCloser(lm, lm.candidateImpostors[q],
                                     s1.candidateImpostors[q], q, r)
               /\ \A p \in 1..Len(lm.tdata) : p # q =>
                    /\ s1.candidateNeighbors[p] = lm.candidateNeighbors[p]
                    /\ s1.candidateImpostors[p] = lm.candidateImpostors[p]
               /\ q = r => /\ s1.candidateNeighbors = lm.candidateNeighbors
                           /\ s1.candidateImpostors = lm.candidateImpostors

\* The traversal is about to call BaseCase on a pair whose distance is not
\* below the worst distance of the full neighbor list of the query point,
\* whose impostor list holds a point as well.
C21_Witness ==
  /\ LmTop("base")
  /\ LET q == lm.stack[1].q
         r == lm.stack[1].r
     IN  /\ q # r
         /\ lm.sortedLabels[q] = lm.sortedLabels[r]
         /\ PqTop(lm.candidateNeighbors[q]).second # SIZE_MAX
         /\ \E j \in 1..lm.k : lm.candidateImpostors[q][j].second # SIZE_MAX
         /\ ~(Metric(lm.tdata[q], lm.tdata[r]) < PqTop(lm.candidateNeighbors[q]).first)
         /\ ~(lm.lastQueryIndex = q /\ lm.lastReferenceIndex = r)

\* The scores Rescore can be handed: a distance of the dataset or DBL_MAX.
LmnnScores ==
  {Abs(a - b) : a, b \in LmnnCoords} \cup {DBL_MAX}

\* `result` is what a Rescore owes for `oldScore` under the pruning bound
\* `bound`: the old score or DBL_MAX, DBL_MAX for DBL_MAX, and the old
\* score exactly when it does not exceed the bound.
RescoreKeepsPrune(oldScore, bound, result) ==
  /\ result \in {oldScore, DBL_MAX}
  /\ oldScore = DBL_MAX => result = DBL_MAX
  /\ oldScore # DBL_MAX => (result = oldScore <=> oldScore <= bound)

\* C22: at every moment of the traversal and for every old score, Rescore
\* of a query point against a reference node and Rescore of a query node
\* against a reference node return the old score or DBL_MAX, return DBL_MAX
\* for DBL_MAX, and return the old score exactly when it does not exceed
\* the pruning bound: the larger of the k-th neighbor and the k-th impostor
\* distance of the point, CalculateBound of the node.
C22_RescoreNeverUnprunes ==
  lm.pc = "traversing" =>
    \A oldScore \in LmnnScores :
      /\ \A q \in 1..Len(lm.tdata) :
           RescoreKeepsPrune(oldScore, BestDistance(lm, q),
                             LmnnRescorePoint(lm, q, oldScore))
      /\ \A n \in DOMAIN lm.T :
           RescoreKeepsPrune(oldScore, CalculateBound(lm, n),
                             LmnnRescoreNode(lm, n, oldScore).score)

\* The traverser is about to rescore a reference child that Score let
\* through with a score above 0, and the bound of the query node has
\* dropped below that score in between.
C22_Witness ==
  /\ LmTop("resc")
  /\ lm.stack[1].score # DBL_MAX
  /\ lm.stack[1].score > 0
  /\ lm.stack[1].score > CalculateBound(lm, lm.stack[1].q)
  /\ \E q \in 1..Len(lm.tdata) : BestDistance(lm, q) < DBL_MAX

(***************************************************************************)
(* The same search on a few datasets of six points, where the traversal    *)
(* comes back to query nodes whose points all have full candidate lists.   *)
(***************************************************************************)
LbDatasets == {<<0, 2, 4, 8, 10, 12>>, <<0, 1, 3, 7, 8, 20>>, <<5, 0, 9, 2, 7, 3>>}

LbInit ==
  \E d \in LbDatasets : \E l \in [DOMAIN d -> {0, 1}], k \in LmnnK :
    lm = [pc |-> "new", dataset |-> d, labels |-> l, k |-> k]

InitLMNNBound == LbInit /\ ct = CtOff /\ km = KmOff /\ rl = RlOff
SpecLMNNBound == InitLMNNBound /\ [][NextLMNN]_vars

\* The largest of the worst candidate distances of the points below n.
WorstBelow(s, n) ==
  SetMax({BestDistance(s, p) : p \in Descendants(s.T, n)})

\* C30: at every moment of the traversal the bound cached in a query node
\* is at least the larger of the k-th neighbor and the k-th impostor
\* distance of every descendant point of the node, and a CalculateBound
\* call on the node returns a value that is no larger than the cached one
\* and not below those distances either.
C30_CachedBoundCoversDescendants ==
  lm.pc = "traversing" =>
    \A n \in DOMAIN lm.T :
      /\ lm.Bound[n] >= WorstBelow(lm, n)
      /\ CalculateBound(lm, n) <= lm.Bound[n]
      /\ CalculateBound(lm, n) >= WorstBelow(lm, n)

\* CalculateBound has cached a bound below DBL_MAX in an internal node,
\* and the candidates below some node have improved since its bound was
\* cached, so that the next call on that node returns less than the cached
\* value.
C30_Witness ==
  /\ lm.pc = "traversing"
  /\ \E n \in DOMAIN lm.T : ~IsLeaf(lm.T, n) /\ lm.Bound[n] < DBL_MAX
  /\ \E n \in DOMAIN lm.T :
       /\ lm.Bound[n] < DBL_MAX
       /\ WorstBelow(lm, n) < lm.Bound[n]
       /\ CalculateBound(lm, n) < lm.Bound[n]

(***************************************************************************)
(* Constraints::ComputeImpostors on the whole dataset: the tree built by   *)
(* TargetsAndImpostors is kept, its dataset is replaced by the original    *)
(* dataset times the transformation (a factor in one dimension), and       *)
(* UpdateTree rebuilds the bounds of the nodes.  FurthestDescendantDistance *)
(* and ParentDistance are computed from the bounds wherever they are read.  *)
(***************************************************************************)
StretchPoints == 5
StretchRounds == 2
StretchLeafSize == 2
StretchFactors == {-1, 0, 1, 2, 3}

\* HRectBound::Clear: the bound of the node contains nothing.
BoundClear(T, node) ==
  [T EXCEPT ![node].lo = DBL_MAX, ![node].hi = -DBL_MAX]

\* HRectBound::operator|=(data): the bound of the node grows to hold `xs`.
BoundGrowPoints(T, node, xs) ==
  [T EXCEPT ![node].lo = SetMin({@} \cup xs), ![node].hi = SetMax({@} \cup xs)]

\* HRectBound::operator|=(other): the bound of the node grows to hold the
\* bound of node `other`.
BoundGrowBound(T, node, other) ==
  [T EXCEPT ![node].lo = Min2(@, T[other].lo), ![node].hi = Max2(@, T[other].hi)]

RECURSIVE UpdateTreeNoClear(_, _, _)
\* UpdateTree without the Clear() of the old bound.
UpdateTreeNoClear(T, data, node) ==
  IF IsLeaf(T, node)
  THEN BoundGrowPoints(T, node, {data[i] : i \in NodePoints(T, node)})
  ELSE LET T1 == UpdateTreeNoClear(T, data, Left(node))
           T2 == UpdateTreeNoClear(T1, data, Right(node))
       IN  BoundGrowBound(BoundGrowBound(T2, node, Left(node)), node, Right(node))

RECURSIVE LmnnUpdateTree(_, _, _)
\* UpdateTree(node, transformation) of constraints_impl.hpp on the tree
\* whose dataset `data` has been stretched already.
LmnnUpdateTree(T, data, node) ==
  LET T0 == BoundClear(T, node)
  IN  IF IsLeaf(T0, node)
      THEN BoundGrowPoints(T0, node, {data[i] : i \in NodePoints(T0, node)})
      ELSE LET T1 == LmnnUpdateTree(T0, data, Left(node))
               T2 == LmnnUpdateTree(T1, data, Right(node))
           IN  BoundGrowBound(BoundGrowBound(T2, node, Left(node)), node, Right(node))

\* The tree and the copy of its dataset that TargetsAndImpostors leave.
StInit ==
  \E d \in [1..StretchPoints -> LmnnCoords] :
    LET built == BuildTree(d, StretchLeafSize)
        td    == [i \in 1..StretchPoints |-> d[built.perm[i]]]
    IN  lm = [pc |-> "built", OrigDataset |-> td, dataset |-> td,
              T |-> built.nodes, transformation |-> <<>>]

\* ComputeImpostors: tree->Dataset() = transformation * OrigDataset.
StStretch ==
  /\ lm.pc = "built"
  /\ Len(lm.transformation) < StretchRounds
  /\ \E f \in StretchFactors :
       lm' = [lm EXCEPT !.pc = "stretched",
                        !.dataset = [i \in 1..StretchPoints |-> f * lm.OrigDataset[i]],
                        !.transformation = Append(@, f)]
  /\ UNCHANGED <<ct, km, rl>>

\* ComputeImpostors: UpdateTree(*tree, transformation).
StUpdateTree ==
  /\ lm.pc = "stretched"
  /\ lm' = [lm EXCEPT !.pc = "built", !.T = LmnnUpdateTree(lm.T, lm.dataset, 1)]
  /\ UNCHANGED <<ct, km, rl>>

InitStretch == StInit /\ ct = CtOff /\ km = KmOff /\ rl = RlOff
NextStretch == StStretch \/ StUpdateTree
SpecStretch == InitStretch /\ [][NextStretch]_vars

\* The stretched points below node n.
StretchedBelow(n) == {lm.dataset[i] : i \in Descendants(lm.T, n)}

\* C23: after UpdateTree the bound of every node holds every descendant
\* point of the stretched dataset and nothing of the bound it had before:
\* the bound of a leaf spans exactly the points of the leaf, the bound of
\* an internal node is the union of the bounds of its two children.
C23_BoundsRebuilt ==
  (lm.pc = "built" /\ lm.transformation # <<>>) =>
    \A n \in DOMAIN lm.T :
      /\ \A x \in StretchedBelow(n) : lm.T[n].lo <= x /\ x <= lm.T[n].hi
      /\ lm.T[n].lo = SetMin(StretchedBelow(n))
      /\ lm.T[n].hi = SetMax(StretchedBelow(n))
      /\ ~IsLeaf(lm.T, n) =>
           /\ lm.T[n].lo = Min2(lm.T[Left(n)].lo, lm.T[Right(n)].lo)
           /\ lm.T[n].hi = Max2(lm.T[Left(n)].hi, lm.T[Right(n)].hi)

\* UpdateTree ran a second time with a smaller factor on a tree with an
\* internal node below the root and a leaf of two different points, so
\* that the bounds of the first pass are too wide for the second.
C23_Witness ==
  /\ lm.pc = "built"
  /\ lm.transformation = <<3, 1>>
  /\ \E n \in DOMAIN lm.T : n # 1 /\ ~IsLeaf(lm.T, n)
  /\ \E n \in DOMAIN lm.T :
       IsLeaf(lm.T, n) /\ lm.T[n].count = 2 /\ lm.T[n].lo < lm.T[n].hi
  /\ lm.T[1].hi - lm.T[1].lo < 3 * (SetMax(StretchedBelow(1)) - SetMin(StretchedBelow(1)))

(***************************************************************************)
(* DTNNKMeans.  Clusters are numbered 1..K, so the invalid owner           *)
(* centroids.n_cols is K+1 and clusterDistances has K+1 entries, the last  *)
(* one holding the largest movement.  Coordinates are multiples of         *)
(* KmScale, so every mean of at most KmPoints points and every half of a   *)
(* distance between two such means is an integer.                          *)
(***************************************************************************)
\* Number of points of the k-means datasets.
KmPoints == 5
\* Number of Iterate calls of one run.
KmIterations == 4
KmUnits == {0, 1, 2, 5, 9}
KmClusters == {2, 3}
\* maxLeafSize of the tree `new TreeType(dataset)` builds when TreeType is a
\* BinarySpaceTree: a dataset of KmPoints points is then one leaf.
KmLeafSize == 20
\* maxLeafSize of a TreeType with small leaves, whose tree of KmPoints
\* points has inner nodes.
KmSmallLeafSize == 2
KmLeafSizes == {KmSmallLeafSize, KmLeafSize}

RECURSIVE Gcd(_, _)
Gcd(a, b) == IF b = 0 THEN a ELSE Gcd(b, a % b)
RECURSIVE LcmUpTo(_)
LcmUpTo(n) == IF n = 1 THEN 1 ELSE (LcmUpTo(n - 1) * n) \div Gcd(LcmUpTo(n - 1), n)
KmScale == 2 * LcmUpTo(KmPoints)
KmCoords == {KmScale * u : u \in KmUnits}

\* Datasets in nondecreasing order (the point tree reorders its copy of the
\* dataset and keeps no mapping).
KmDatasets ==
  {d \in [1..KmPoints -> KmCoords] : \A i \in 1..(KmPoints - 1) : d[i] <= d[i + 1]}
KmCentroidSets == UNION {[1..K -> KmCoords] : K \in KmClusters}

\* The inputs of a run: a dataset, the initial centroids and the leaf size
\* of the tree type.
KmInputs == KmDatasets \X KmCentroidSets \X KmLeafSizes

\* The DTNN statistic of a freshly built node.
InitialStat ==
  [StaticPruned |-> FALSE, Pruned |-> SIZE_MAX, Owner |-> SIZE_MAX,
   UpperBound |-> DBL_MAX, LowerBound |-> DBL_MAX,
   StaticUpperBoundMovement |-> 0, StaticLowerBoundMovement |-> 0]

\* Links of the nodes of a built tree T.
TreePointers(T) == BuiltPointers(DOMAIN T)

\* Stat().Centroid() * NumDescendants(): the sum of the descendant points.
DescendantSum(data, T, n) ==
  LET S[i \in (T[n].begin - 1)..(T[n].begin + T[n].count - 1)] ==
        IF i = T[n].begin - 1 THEN 0 ELSE S[i - 1] + data[i]
  IN  S[T[n].begin + T[n].count - 1]

\* NeighborSearch with k = 1 on the centroids: for every centroid the
\* distance to the nearest other centroid.
InterclusterDistances(centroids) ==
  [c \in DOMAIN centroids |->
     LET ds == {Metric(centroids[c], centroids[o]) : o \in DOMAIN centroids \ {c}}
     IN  CHOOSE d \in ds : \A e \in ds : d <= e]

\* UpdateTree, lines 204-213: take the bounds of a parent owned by one cluster.
InheritFromParent(cx, u, node) ==
  LET par == cx.ptr.Parent[node]
      st  == [u.stat[node] EXCEPT !.StaticPruned = FALSE]
  IN  IF par # NULL /\ u.stat[par].Pruned = cx.K
      THEN [st EXCEPT !.UpperBound = u.stat[par].UpperBound,
                      !.LowerBound = DAdd(u.stat[par].LowerBound,
                                          cx.clusterDistances[cx.K + 1]),
                      !.Pruned = u.stat[par].Pruned,
                      !.Owner = u.stat[par].Owner]
      ELSE st

\* UpdateTree, lines 267-296, with the movement of the owner left out of the
\* upper bound and the node box not consulted.
AdjustNodeBoundsNoMovement(cx, st, node) ==
  IF st.Pruned = cx.K /\ st.Owner <= cx.K
  THEN LET ub  == st.UpperBound
           lb0 == DSub(st.LowerBound, cx.clusterDistances[cx.K + 1])
           interclusterBound == cx.interclusterDistances[st.Owner] \div 2
           lb  == IF interclusterBound > lb0 THEN interclusterBound ELSE lb0
           tight == ub
       IN  IF ub < lb
           THEN [st EXCEPT !.UpperBound = ub, !.LowerBound = lb, !.StaticPruned = TRUE]
           ELSE [st EXCEPT !.UpperBound = tight, !.LowerBound = lb,
                           !.StaticPruned = (tight < lb)]
  ELSE [st EXCEPT !.LowerBound = DSub(@, cx.clusterDistances[cx.K + 1])]

\* UpdateTree, lines 267-296: the test of a node owned by one cluster.
AdjustNodeBounds(cx, st, node) ==
  IF st.Pruned = cx.K /\ st.Owner <= cx.K
  THEN LET ub  == DAdd(st.UpperBound, cx.clusterDistances[st.Owner])
           lb0 == DSub(st.LowerBound, cx.clusterDistances[cx.K + 1])
           interclusterBound == cx.interclusterDistances[st.Owner] \div 2
           lb  == IF interclusterBound > lb0 THEN interclusterBound ELSE lb0
           tight == BoundMaxDistancePoint(cx.T[node], cx.centroids[st.Owner])
       IN  IF ub < lb
           THEN [st EXCEPT !.UpperBound = ub, !.LowerBound = lb, !.StaticPruned = TRUE]
           ELSE [st EXCEPT !.UpperBound = tight, !.LowerBound = lb,
                           !.StaticPruned = (tight < lb)]
  ELSE [st EXCEPT !.LowerBound = DSub(@, cx.clusterDistances[cx.K + 1])]

\* The bounds of a point at the moment its pruning test is made (after the
\* correction for the time its node spent statically pruned).
PointBoundsAtDecision(u, st, index, prunedLastIteration) ==
  [index |-> index, nodeLower |-> st.LowerBound,
   corrected |-> prunedLastIteration,
   upper |-> IF prunedLastIteration
             THEN DAdd(u.upperBounds[index], st.StaticUpperBoundMovement)
             ELSE u.upperBounds[index],
   lower |-> IF prunedLastIteration
             THEN DSub(u.lowerBounds[index], st.StaticLowerBoundMovement)
             ELSE u.lowerBounds[index]]

\* UpdateTree, lines 302-353, with the whole intercluster distance, not its
\* half, as the lower bound of line 327.
UpdatePointWholeIntercluster(cx, u, st, index, prunedLastIteration) ==
  IF ~cx.visited[index] /\ ~u.prunedPoints[index]
  THEN [u EXCEPT !.upperBounds[index] = DBL_MAX, !.lowerBounds[index] = DBL_MAX,
                 !.allPointsPruned = FALSE]
  ELSE
    LET at    == PointBoundsAtDecision(u, st, index, prunedLastIteration)
        owner == cx.assignments[index]
        lowerBound == Min2(DSub(at.lower, cx.clusterDistances[cx.K + 1]),
                           st.LowerBound)
        pruningLowerBound == Max2(lowerBound, cx.interclusterDistances[owner])
        exact == Metric(cx.dataset[index], cx.centroids[owner])
        u1 == [u EXCEPT !.decisions = Append(@, at)]
    IN  IF DAdd(at.upper, cx.clusterDistances[owner]) < pruningLowerBound
        THEN [u1 EXCEPT !.prunedPoints[index] = TRUE,
                        !.upperBounds[index] = DAdd(at.upper, cx.clusterDistances[owner]),
                        !.lowerBounds[index] = pruningLowerBound]
        ELSE IF exact < pruningLowerBound
        THEN [u1 EXCEPT !.prunedPoints[index] = TRUE,
                        !.upperBounds[index] = exact,
                        !.lowerBounds[index] = pruningLowerBound]
        ELSE [u1 EXCEPT !.prunedPoints[index] = FALSE,
                        !.upperBounds[index] = DBL_MAX,
                        !.lowerBounds[index] = DBL_MAX,
                        !.allPointsPruned = FALSE]

\* UpdateTree, lines 302-353, leaving the tightened upper bound in place
\* for a point that cannot be pruned.
UpdatePointKeepsTightened(cx, u, st, index, prunedLastIteration) ==
  IF ~cx.visited[index] /\ ~u.prunedPoints[index]
  THEN [u EXCEPT !.upperBounds[index] = DBL_MAX, !.lowerBounds[index] = DBL_MAX,
                 !.allPointsPruned = FALSE]
  ELSE
    LET at    == PointBoundsAtDecision(u, st, index, prunedLastIteration)
        owner == cx.assignments[index]
        lowerBound == Min2(DSub(at.lower, cx.clusterDistances[cx.K + 1]),
                           st.LowerBound)
        pruningLowerBound ==
          Max2(lowerBound, cx.interclusterDistances[owner] \div 2)
        exact == Metric(cx.dataset[index], cx.centroids[owner])
        u1 == [u EXCEPT !.decisions = Append(@, at)]
    IN  IF DAdd(at.upper, cx.clusterDistances[owner]) < pruningLowerBound
        THEN [u1 EXCEPT !.prunedPoints[index] = TRUE,
                        !.upperBounds[index] = DAdd(at.upper, cx.clusterDistances[owner]),
                        !.lowerBounds[index] = pruningLowerBound]
        ELSE IF exact < pruningLowerBound
        THEN [u1 EXCEPT !.prunedPoints[index] = TRUE,
                        !.upperBounds[index] = exact,
                        !.lowerBounds[index] = pruningLowerBound]
        ELSE [u1 EXCEPT !.prunedPoints[index] = FALSE,
                        !.upperBounds[index] = exact,
                        !.allPointsPruned = FALSE]

\* UpdateTree, lines 302-353: one point held by the node.
UpdatePoint(cx, u, st, index, prunedLastIteration) ==
  IF ~cx.visited[index] /\ ~u.prunedPoints[index]
  THEN [u EXCEPT !.upperBounds[index] = DBL_MAX, !.lowerBounds[index] = DBL_MAX,
                 !.allPointsPruned = FALSE]
  ELSE
    LET at    == PointBoundsAtDecision(u, st, index, prunedLastIteration)
        owner == cx.assignments[index]
        lowerBound == Min2(DSub(at.lower, cx.clusterDistances[cx.K + 1]),
                           st.LowerBound)
        pruningLowerBound ==
          Max2(lowerBound, cx.interclusterDistances[owner] \div 2)
        exact == Metric(cx.dataset[index], cx.centroids[owner])
        u1 == [u EXCEPT !.decisions = Append(@, at)]
    IN  IF DAdd(at.upper, cx.clusterDistances[owner]) < pruningLowerBound
        THEN [u1 EXCEPT !.prunedPoints[index] = TRUE,
                        !.upperBounds[index] = DAdd(at.upper, cx.clusterDistances[owner]),
                        !.lowerBounds[index] = pruningLowerBound]
        ELSE IF exact < pruningLowerBound
        THEN [u1 EXCEPT !.prunedPoints[index] = TRUE,
                        !.upperBounds[index] = exact,
                        !.lowerBounds[index] = pruningLowerBound]
        ELSE [u1 EXCEPT !.prunedPoints[index] = FALSE,
                        !.upperBounds[index] = DBL_MAX,
                        !.lowerBounds[index] = DBL_MAX,
                        !.allPointsPruned = FALSE]

RECURSIVE UpdatePoints(_, _, _, _, _, _)
\* The loop over the points held by the node, from `index` to `last`.
UpdatePoints(cx, u, st, index, last, prunedLastIteration) ==
  IF index > last THEN u
  ELSE UpdatePoints(cx, UpdatePoint(cx, u, st, index, prunedLastIteration),
                    st, index + 1, last, prunedLastIteration)

\* UpdateTree, lines 374-406, marking the node whatever its children are.
FinishNodeIgnoringChildren(cx, st, allChildrenPruned, allPointsPruned, prunedLastIteration) ==
  LET st1 == IF allPointsPruned /\ ~st.StaticPruned
             THEN [st EXCEPT !.StaticPruned = TRUE, !.Owner = cx.K + 1,
                             !.Pruned = SIZE_MAX]
             ELSE st
  IN  IF ~st1.StaticPruned
      THEN [st1 EXCEPT !.UpperBound = DBL_MAX, !.LowerBound = DBL_MAX,
                       !.Pruned = SIZE_MAX, !.Owner = cx.K + 1]
      ELSE [st1 EXCEPT
              !.StaticUpperBoundMovement = cx.clusterDistances[st1.Owner],
              !.StaticLowerBoundMovement = cx.clusterDistances[cx.K + 1]]

\* UpdateTree, lines 374-406: what the node keeps once its points and its
\* children are done.
FinishNode(cx, st, allChildrenPruned, allPointsPruned, prunedLastIteration) ==
  LET st1 == IF allChildrenPruned /\ allPointsPruned /\ ~st.StaticPruned
             THEN [st EXCEPT !.StaticPruned = TRUE, !.Owner = cx.K + 1,
                             !.Pruned = SIZE_MAX]
             ELSE st
  IN  IF ~st1.StaticPruned
      THEN [st1 EXCEPT !.UpperBound = DBL_MAX, !.LowerBound = DBL_MAX,
                       !.Pruned = SIZE_MAX, !.Owner = cx.K + 1,
                       !.StaticPruned = FALSE]
      ELSE IF prunedLastIteration
      THEN [st1 EXCEPT
              !.StaticUpperBoundMovement = @ + cx.clusterDistances[st1.Owner],
              !.StaticLowerBoundMovement = @ + cx.clusterDistances[cx.K + 1]]
      ELSE [st1 EXCEPT
              !.StaticUpperBoundMovement = cx.clusterDistances[st1.Owner],
              !.StaticLowerBoundMovement = cx.clusterDistances[cx.K + 1]]

RECURSIVE UpdateTree(_, _, _)
\* DTNNKMeans::UpdateTree.  u.fatal is set when Log::Fatal stops the pass.
UpdateTree(cx, u, node) ==
  IF u.fatal THEN u
  ELSE
    LET prunedLastIteration == u.stat[node].StaticPruned
        st == AdjustNodeBounds(cx, InheritFromParent(cx, u, node), node)
        u1 == [u EXCEPT !.stat[node] = st, !.allPointsPruned = TRUE]
        u2 == IF ~st.StaticPruned /\ NumChildren(cx.ptr, node) = 0
              THEN UpdatePoints(cx, u1, st, cx.T[node].begin,
                                cx.T[node].begin + cx.T[node].count - 1,
                                prunedLastIteration)
              ELSE u1
        u3 == IF NumChildren(cx.ptr, node) = 0 THEN u2
              ELSE UpdateTree(cx, UpdateTree(cx, u2, Child(cx.ptr, node, 0)),
                              Child(cx.ptr, node, 1))
        allChildrenPruned ==
          \/ NumChildren(cx.ptr, node) = 0
          \/ /\ u3.stat[Child(cx.ptr, node, 0)].StaticPruned
             /\ u3.stat[Child(cx.ptr, node, 1)].StaticPruned
    IN  IF u3.fatal THEN u3
        ELSE IF st.StaticPruned /\ ~allChildrenPruned THEN [u3 EXCEPT !.fatal = TRUE]
        ELSE [u3 EXCEPT !.stat[node] =
                FinishNode(cx, u3.stat[node], allChildrenPruned,
                           u2.allPointsPruned, prunedLastIteration)]

RECURSIVE ExtractPoints(_, _, _, _)
\* ExtractCentroids, lines 457-489: the points of a leaf, by assignment.
\* acc.times counts for every point how often it was added.
ExtractPoints(cx, acc, index, last) ==
  IF index > last THEN acc
  ELSE LET owner == cx.assignments[index]
       IN  IF owner \notin 1..cx.K THEN [acc EXCEPT !.outOfRange = TRUE]
           ELSE ExtractPoints(cx,
                  [acc EXCEPT !.sums[owner] = @ + cx.dataset[index],
                              !.counts[owner] = @ + 1,
                              !.times[index] = @ + 1],
                  index + 1, last)

\* ExtractCentroids, lines 416-417: the node is owned by one cluster.
BulkOwned(cx, node) ==
  \/ cx.stat[node].Pruned = cx.K
  \/ cx.stat[node].StaticPruned /\ cx.stat[node].Owner <= cx.K

\* ExtractCentroids, lines 419-421: the whole node goes to its owner.
\* acc.bulk collects the nodes added in this way.
ExtractNode(cx, acc, node) ==
  LET owner == cx.stat[node].Owner
  IN  IF owner \notin 1..cx.K THEN [acc EXCEPT !.outOfRange = TRUE]
      ELSE [acc EXCEPT !.sums[owner] = @ + DescendantSum(cx.dataset, cx.T, node),
                       !.counts[owner] = @ + NumDescendants(cx.T, node),
                       !.bulk = @ \cup {node},
                       !.times = [i \in DOMAIN @ |->
                                    IF i \in Descendants(cx.T, node) THEN @[i] + 1
                                    ELSE @[i]]]

RECURSIVE ExtractCentroids(_, _, _)
\* DTNNKMeans::ExtractCentroids.  acc.outOfRange is set when
\* newCentroids.col() throws: the exception leaves the whole recursion, so
\* the nodes after the offending one add nothing.
ExtractCentroids(cx, acc, node) ==
  IF acc.outOfRange THEN acc
  ELSE IF BulkOwned(cx, node)
  THEN ExtractNode(cx, acc, node)
  ELSE IF NumChildren(cx.ptr, node) = 0
  THEN ExtractPoints(cx, acc, cx.T[node].begin, cx.T[node].begin + cx.T[node].count - 1)
  ELSE ExtractCentroids(cx, ExtractCentroids(cx, acc, Child(cx.ptr, node, 0)),
                        Child(cx.ptr, node, 1))

(***************************************************************************)
(* The traversal of Iterate, lines 136-149.  DTNNKMeansRules and the       *)
(* breadth-first traverser are not part of the sources, and the rules of   *)
(* dual_tree_kmeans_rules_impl.hpp (modelled below, SpecRules) are another *)
(* class with another constructor, which keeps no upper or lower bounds.   *)
(* PointBaseCases, LeafBaseCases and Traverse are therefore an assumption  *)
(* about what the traversal leaves behind, not a translation: the state a  *)
(* traversal that works would leave, with the tightest bounds.  They give  *)
(* UpdateTree, CoalesceTree, DecoalesceTree, ExtractCentroids and the      *)
(* normalisation of the later calls a state to run on.  Nothing about the  *)
(* traversal itself (which cluster a point gets, that every point gets     *)
(* one) is established by them; the properties checked under SpecIterate   *)
(* are properties of the translated steps.                                 *)
(***************************************************************************)
RECURSIVE PointBaseCases(_, _, _, _, _)
\* Assumed: the base cases of one point against the centroids `live`, taken
\* in the order of the centroid tree: the nearest becomes the assignment
\* and the upper bound, the second nearest the lower bound.
PointBaseCases(cx, s, index, live, pos) ==
  IF pos > Len(cx.oldFromNewCentroids) THEN s
  ELSE
    LET c == cx.oldFromNewCentroids[pos]
        distance == Metric(cx.dataset[index], cx.centroids[c])
        s1 == [s EXCEPT !.visited[index] = TRUE]
        s2 == IF distance < s1.upperBounds[index]
              THEN [s1 EXCEPT !.lowerBounds[index] = s1.upperBounds[index],
                              !.upperBounds[index] = distance,
                              !.assignments[index] = c]
              ELSE IF distance < s1.lowerBounds[index]
              THEN [s1 EXCEPT !.lowerBounds[index] = distance]
              ELSE s1
    IN  PointBaseCases(cx, IF c \in live THEN s2 ELSE s, index, live, pos + 1)

RECURSIVE LeafBaseCases(_, _, _, _, _)
\* Assumed: the points of a leaf that UpdateTree did not prune get their
\* base cases.
LeafBaseCases(cx, s, index, last, live) ==
  IF index > last THEN s
  ELSE LeafBaseCases(cx,
         IF cx.prunedPoints[index] THEN s ELSE PointBaseCases(cx, s, index, live, 1),
         index + 1, last, live)

RECURSIVE Traverse(_, _, _, _, _)
\* Assumed: the dual-tree traversal of the point tree against the
\* centroids, by what it leaves behind.  A centroid is ruled out for a node
\* when its least distance to the node's bound exceeds the node's upper
\* bound; a node for
\* which all centroids but one are ruled out is owned by that one
\* (Pruned = K) and is not descended into; a statically pruned node is
\* skipped; the points of a leaf that are not pruned get their base cases.
Traverse(cx, s, node, prunedSet, lower) ==
  IF s.stat[node].StaticPruned THEN s
  ELSE
    LET live == (1..cx.K) \ prunedSet
        ub   == SetMin({BoundMaxDistancePoint(cx.T[node], cx.centroids[c]) : c \in live})
        gone == {c \in live : BoundMinDistancePoint(cx.T[node], cx.centroids[c]) > ub}
        lb   == SetMin({lower} \cup
                       {BoundMinDistancePoint(cx.T[node], cx.centroids[c]) : c \in gone})
        left == live \ gone
        s1   == [s EXCEPT !.stat[node].UpperBound = ub,
                          !.stat[node].LowerBound = lb,
                          !.stat[node].Pruned = cx.K - Cardinality(left)]
    IN  IF Cardinality(left) = 1
        THEN [s1 EXCEPT !.stat[node].Pruned = cx.K,
                        !.stat[node].Owner = CHOOSE c \in left : TRUE]
        ELSE IF NumChildren(cx.ptr, node) = 0
        THEN LeafBaseCases(cx, s1, cx.T[node].begin,
                           cx.T[node].begin + cx.T[node].count - 1, left)
        ELSE Traverse(cx, Traverse(cx, s1, Child(cx.ptr, node, 0), prunedSet \cup gone, lb),
                      Child(cx.ptr, node, 1), prunedSet \cup gone, lb)

\* Iterate, lines 161-186, an empty cluster treated like the others but for
\* the division.
NormalizeNoSentinel(centroids, sums, counts) ==
  LET K == Len(centroids)
      mean == [c \in 1..K |-> IF counts[c] = 0 THEN sums[c] ELSE sums[c] \div counts[c]]
      movement == [c \in 1..K |-> Metric(centroids[c], mean[c])]
      SumSq[c \in 0..K] == IF c = 0 THEN 0 ELSE SumSq[c - 1] + movement[c] * movement[c]
  IN  [newCentroids |-> mean,
       clusterDistances |-> [c \in 1..(K + 1) |->
                               IF c <= K THEN movement[c]
                               ELSE SetMax({0} \cup {movement[o] : o \in 1..K})],
       residual |-> SumSq[K]]

\* Iterate, lines 161-186: empty clusters get the DBL_MAX sentinel and no
\* movement, the others the mean of their points; `residual` is the sum of
\* the squared movements and the last entry of clusterDistances the largest
\* movement.
Normalize(centroids, sums, counts) ==
  LET K == Len(centroids)
      mean == [c \in 1..K |-> IF counts[c] = 0 THEN DBL_MAX ELSE sums[c] \div counts[c]]
      movement == [c \in 1..K |->
                     IF counts[c] = 0 THEN 0 ELSE Metric(centroids[c], mean[c])]
      SumSq[c \in 0..K] == IF c = 0 THEN 0 ELSE SumSq[c - 1] + movement[c] * movement[c]
  IN  [newCentroids |-> mean,
       clusterDistances |-> [c \in 1..(K + 1) |->
                               IF c <= K THEN movement[c]
                               ELSE SetMax({0} \cup {movement[o] : o \in 1..K})],
       residual |-> SumSq[K]]

(***************************************************************************)
(* Specification SpecIterate: a DTNNKMeans object is built on a dataset    *)
(* and Iterate is called KmIterations times, each call being given the     *)
(* centroids the previous call returned.  The run ends when a cluster      *)
(* comes back empty.  One Iterate call is the chain of actions KmBegin,    *)
(* KmCoalesce, KmTraverse, KmDecoalesce, KmExtract, KmFinish.              *)
(***************************************************************************)
KmInit ==
  \E input \in KmInputs :
    LET d == input[1]
        c == input[2]
        B == BuildTree(d, input[3])
        n == Len(d)
        K == Len(c)
    IN  km = [pc |-> "ready", iteration |-> 0, K |-> K,
              dataset |-> [i \in 1..n |-> d[B.perm[i]]],
              T |-> B.nodes,
              saved |-> TreePointers(B.nodes), ptr |-> TreePointers(B.nodes),
              coalesced |-> TreePointers(B.nodes),
              stat |-> [node \in DOMAIN B.nodes |-> InitialStat],
              upperBounds |-> [i \in 1..n |-> DBL_MAX],
              lowerBounds |-> [i \in 1..n |-> DBL_MAX],
              prunedPoints |-> [i \in 1..n |-> FALSE],
              visited |-> [i \in 1..n |-> FALSE],
              assignments |-> [i \in 1..n |-> SIZE_MAX],
              clusterDistances |-> [i \in 1..(K + 1) |-> 0],
              interclusterDistances |-> [i \in 1..K |-> 0],
              centroids |-> c, lastIterationCentroids |-> c,
              oldFromNewCentroids |-> <<>>,
              sums |-> [i \in 1..K |-> 0],
              newCentroids |-> [i \in 1..K |-> 0],
              counts |-> [i \in 1..K |-> 0],
              residual |-> 0, decisions |-> <<>>,
              extractTimes |-> [i \in 1..n |-> 0], extractBulk |-> {}]

\* Iterate, lines 104-119: the centroids of this call and the distance of
\* every centroid to its nearest other centroid.
BeginContext(s) ==
  LET cents == IF s.iteration = 0 THEN s.centroids ELSE s.newCentroids
  IN  [s EXCEPT !.centroids = cents,
                !.interclusterDistances = InterclusterDistances(cents)]

\* Iterate, line 122: UpdateTree(*tree, oldCentroids, interclusterDistances)
\* with the visited flags as the object holds them at that line.
UpdateAtBegin(s) ==
  UpdateTree(BeginContext(s), [stat |-> s.stat, upperBounds |-> s.upperBounds,
                               lowerBounds |-> s.lowerBounds,
                               prunedPoints |-> s.prunedPoints,
                               allPointsPruned |-> TRUE, decisions |-> <<>>,
                               fatal |-> FALSE], 1)

\* Iterate without the loop of lines 124-125.
VisitedKept(visited) == visited

\* Iterate, lines 124-125: visited[i] = false for every point.
VisitedReset(visited) == [i \in DOMAIN visited |-> FALSE]

\* Iterate, lines 97-132: the centroid tree and, from the second call on,
\* the intercluster distances, UpdateTree and the reset of visited.
KmBegin ==
  /\ km.pc = "ready"
  /\ km.iteration < KmIterations
  /\ km.iteration > 0 => \A c \in 1..km.K : km.counts[c] > 0
  /\ LET cx    == BeginContext(km)
         ofn   == BuildTree(cx.centroids, 1).perm
         u     == UpdateAtBegin(km)
     IN  IF km.iteration = 0
         THEN km' = [km EXCEPT !.pc = "updated", !.oldFromNewCentroids = ofn]
         ELSE km' = [cx EXCEPT !.pc = IF u.fatal THEN "fatal" ELSE "updated",
                               !.lastIterationCentroids = km.centroids,
                               !.oldFromNewCentroids = ofn,
                               !.stat = u.stat,
                               !.upperBounds = u.upperBounds,
                               !.lowerBounds = u.lowerBounds,
                               !.prunedPoints = u.prunedPoints,
                               !.decisions = u.decisions,
                               !.visited = IF u.fatal THEN km.visited
                                           ELSE VisitedReset(km.visited)]
  /\ UNCHANGED <<ct, lm, rl>>

\* Iterate, lines 144-147: CoalesceTree, then the number of pruned
\* centroids of the root is set to 0.
KmCoalesce ==
  /\ km.pc = "updated"
  /\ LET p == CoalesceTree(km.ptr, [node \in DOMAIN km.T |-> km.stat[node].StaticPruned],
                           1, 0)
     IN  km' = [km EXCEPT !.pc = "coalesced", !.ptr = p, !.coalesced = p,
                          !.stat[1].Pruned = 0]
  /\ UNCHANGED <<ct, lm, rl>>

\* Iterate, lines 148-149: traverser.Traverse(*tree, *centroidTree), by the
\* assumed outcome above.
KmTraverse ==
  /\ km.pc = "coalesced"
  /\ LET s == Traverse(km, [stat |-> km.stat,
                            upperBounds |-> km.upperBounds,
                            lowerBounds |-> km.lowerBounds,
                            assignments |-> km.assignments,
                            visited |-> km.visited], 1, {}, DBL_MAX)
     IN  km' = [km EXCEPT !.pc = "traversed", !.stat = s.stat,
                          !.upperBounds = s.upperBounds,
                          !.lowerBounds = s.lowerBounds,
                          !.assignments = s.assignments,
                          !.visited = s.visited]
  /\ UNCHANGED <<ct, lm, rl>>

\* Iterate, line 153
KmDecoalesce ==
  /\ km.pc = "traversed"
  /\ km' = [km EXCEPT !.pc = "decoalesced",
                      !.ptr = DecoalesceTree(km.ptr, km.saved, 1)]
  /\ UNCHANGED <<ct, lm, rl>>

\* Iterate, lines 157-159.  A column index past the last cluster stops the
\* call in newCentroids.col().
KmExtract ==
  /\ km.pc = "decoalesced"
  /\ LET acc == ExtractCentroids(km, [sums |-> [c \in 1..km.K |-> 0],
                                      counts |-> [c \in 1..km.K |-> 0],
                                      times |-> [i \in DOMAIN km.dataset |-> 0],
                                      bulk |-> {},
                                      outOfRange |-> FALSE], 1)
     IN  km' = [km EXCEPT !.pc = IF acc.outOfRange THEN "crashed" ELSE "extracted",
                          !.sums = acc.sums, !.newCentroids = acc.sums,
                          !.counts = acc.counts,
                          !.extractTimes = acc.times, !.extractBulk = acc.bulk]
  /\ UNCHANGED <<ct, lm, rl>>

\* Iterate, lines 161-192
KmFinish ==
  /\ km.pc = "extracted"
  /\ LET r == Normalize(km.centroids, km.sums, km.counts)
     IN  km' = [km EXCEPT !.pc = "ready", !.iteration = @ + 1,
                          !.newCentroids = r.newCentroids,
                          !.clusterDistances = r.clusterDistances,
                          !.residual = r.residual]
  /\ UNCHANGED <<ct, lm, rl>>

InitIterate == KmInit /\ ct = CtOff /\ lm = LmOff /\ rl = RlOff
NextIterate ==
  KmBegin \/ KmCoalesce \/ KmTraverse \/ KmDecoalesce \/ KmExtract \/ KmFinish
SpecIterate == InitIterate /\ [][NextIterate]_vars

\* The sums and counts of a brute-force assignment `a` of the points.
BruteForce(data, K, a) ==
  [sums |-> [c \in 1..K |->
               LET S[i \in 0..Len(data)] ==
                     IF i = 0 THEN 0
                     ELSE S[i - 1] + (IF a[i] = c THEN data[i] ELSE 0)
               IN  S[Len(data)]],
   counts |-> [c \in 1..K |-> Cardinality({i \in 1..Len(data) : a[i] = c})]]

\* The assignments that give every point a nearest centroid.
NearestAssignments(data, centroids) ==
  {a \in [1..Len(data) -> 1..Len(centroids)] :
     \A i \in 1..Len(data) : \A c \in 1..Len(centroids) :
       Metric(data[i], centroids[a[i]]) <= Metric(data[i], centroids[c])}

\* C5: when ExtractCentroids starts, while it runs and when Iterate has
\* returned, every node's parent and child pointers are the true ones, so
\* the next call's UpdateTree never sees the coalesced shape.
C5_TruePointersAfterTraversal ==
  km.pc \in {"decoalesced", "extracted", "crashed", "ready"} => km.ptr = km.saved

\* An Iterate call that has returned and whose traversal ran on a tree with
\* nodes spliced out.
C5_Witness ==
  /\ km.pc = "ready"
  /\ km.iteration > 1
  /\ km.coalesced # km.saved

\* C6: after Iterate, a cluster without points has count 0, the DBL_MAX
\* sentinel as centroid and movement 0; the other clusters have the mean of
\* their points; the residual is the sum of the squared movements of the
\* clusters that have points.
C6_EmptyClusterSentinel ==
  (km.pc = "ready" /\ km.iteration > 0) =>
    /\ \A c \in 1..km.K :
         IF km.counts[c] = 0
         THEN km.newCentroids[c] = DBL_MAX /\ km.clusterDistances[c] = 0
         ELSE /\ km.newCentroids[c] * km.counts[c] = km.sums[c]
              /\ km.clusterDistances[c] = Metric(km.centroids[c], km.newCentroids[c])
    /\ LET S[c \in 0..km.K] ==
             IF c = 0 THEN 0
             ELSE S[c - 1] + (IF km.counts[c] = 0 THEN 0
                              ELSE Metric(km.centroids[c], km.newCentroids[c])
                                   * Metric(km.centroids[c], km.newCentroids[c]))
       IN  km.residual = S[km.K]

\* An Iterate call that returned with an empty cluster next to a cluster
\* that moved.
C6_Witness ==
  /\ km.pc = "ready"
  /\ km.iteration > 0
  /\ \E c \in 1..km.K : km.counts[c] = 0
  /\ \E c \in 1..km.K : km.counts[c] > 0 /\ km.clusterDistances[c] > 0

\* C8: when UpdateTree has returned normally, both children of every
\* statically pruned node are statically pruned.
C8_StaticPrunedChildren ==
  (km.pc = "updated" /\ km.iteration > 0) =>
    \A node \in DOMAIN km.T :
      (km.stat[node].StaticPruned /\ ~IsLeaf(km.T, node)) =>
         /\ km.stat[Left(node)].StaticPruned
         /\ km.stat[Right(node)].StaticPruned

\* UpdateTree returned leaving a node with children statically pruned and
\* another node not pruned.
C8_Witness ==
  /\ km.pc = "updated"
  /\ km.iteration > 0
  /\ \E node \in DOMAIN km.T : km.stat[node].StaticPruned /\ ~IsLeaf(km.T, node)
  /\ \E node \in DOMAIN km.T : ~km.stat[node].StaticPruned

\* C9 as stated: at every per-point pruning decision of UpdateTree the
\* point's bounds bracket its distance to the centroid of its cluster (the
\* centroid the bounds were computed for, or the moved one).
C9_BoundsBracketAssignedDistance ==
  km.pc \in {"updated", "fatal"} =>
    \A j \in 1..Len(km.decisions) :
      LET e == km.decisions[j]
          x == km.dataset[e.index]
          owner == km.assignments[e.index]
      IN  \/ /\ e.lower <= Metric(x, km.lastIterationCentroids[owner])
             /\ Metric(x, km.lastIterationCentroids[owner]) <= e.upper
          \/ /\ e.lower <= Metric(x, km.centroids[owner])
             /\ Metric(x, km.centroids[owner]) <= e.upper

\* C9, amended: at every per-point pruning decision the upper bound plus the
\* movement of the point's cluster is at least the distance to the moved
\* centroid of that cluster, and the lower bound the test uses is at most
\* the distance to the moved centroid of every other cluster.
C9_BoundsAtDecision ==
  km.pc \in {"updated", "fatal"} =>
    \A j \in 1..Len(km.decisions) :
      LET e == km.decisions[j]
          x == km.dataset[e.index]
          owner == km.assignments[e.index]
      IN  /\ Metric(x, km.centroids[owner]) <=
               DAdd(e.upper, km.clusterDistances[owner])
          /\ \A c \in 1..km.K \ {owner} :
               Min2(DSub(e.lower, km.clusterDistances[km.K + 1]), e.nodeLower)
                 <= Metric(x, km.centroids[c])

\* UpdateTree decided on a point of a node that had been statically pruned
\* and on a point the traversal had visited, after the centroids moved.
C9_Witness ==
  /\ km.pc = "updated"
  /\ km.clusterDistances[km.K + 1] > 0
  /\ \E j \in 1..Len(km.decisions) : km.decisions[j].corrected
  /\ \E j \in 1..Len(km.decisions) :
       /\ km.prunedPoints[km.decisions[j].index]
       /\ km.decisions[j].lower > km.decisions[j].upper

\* C15 as stated: after CoalesceTree has run on the root, no statically
\* pruned node is reachable from the root by following child pointers.
C15_NoPrunedNodeReachable ==
  km.pc = "coalesced" =>
    \A n \in ReachableFrom(km.ptr, 1) : ~km.stat[n].StaticPruned

RECURSIVE RootChildAbove(_)
\* The child of the root that node n (not the root) is or lies below.
RootChildAbove(n) == IF ParentNode(n) = 1 THEN n ELSE RootChildAbove(ParentNode(n))

\* C15, amended: after CoalesceTree has run on the root, a statically pruned
\* node reachable from the root by following child pointers is the root
\* itself, a statically pruned child the root was built with, or a node
\* below such a child (the root is never spliced out, so a pruned child of
\* it stays linked with all that hangs below it).
C15_PrunedOnlyBelowPrunedRootChild ==
  km.pc = "coalesced" =>
    \A n \in ReachableFrom(km.ptr, 1) :
      km.stat[n].StaticPruned =>
        n = 1 \/ km.stat[RootChildAbove(n)].StaticPruned

\* CoalesceTree spliced out a node below an unpruned child of the root and
\* with it a statically pruned node, which is no longer reachable, while the
\* other child of the root is statically pruned and still linked.
C15_Witness ==
  /\ km.pc = "coalesced"
  /\ km.ptr # km.saved
  /\ \E n \in DOMAIN km.T \ {1, Left(1), Right(1)} :
       /\ km.stat[n].StaticPruned
       /\ ~km.stat[RootChildAbove(n)].StaticPruned
       /\ n \notin ReachableFrom(km.ptr, 1)
  /\ \E c \in {Left(1), Right(1)} :
       km.stat[c].StaticPruned /\ c \in ReachableFrom(km.ptr, 1)

\* c is a nearest centroid of x.
IsNearestCentroid(centroids, c, x) ==
  \A o \in DOMAIN centroids : Metric(x, centroids[c]) <= Metric(x, centroids[o])

\* C12: when UpdateTree has returned, the cluster recorded for every point
\* it left marked as pruned is a nearest centroid of the point under the
\* moved centroids, and the owner of every statically pruned node that has a
\* valid owner is a nearest centroid of every descendant point of the node.
C12_NoIncorrectPrune ==
  (km.pc = "updated" /\ km.iteration > 0) =>
    /\ \A i \in DOMAIN km.dataset :
         km.prunedPoints[i] =>
           /\ km.assignments[i] \in 1..km.K
           /\ IsNearestCentroid(km.centroids, km.assignments[i], km.dataset[i])
    /\ \A node \in DOMAIN km.T :
         (km.stat[node].StaticPruned /\ km.stat[node].Owner \in 1..km.K) =>
           \A i \in Descendants(km.T, node) :
             IsNearestCentroid(km.centroids, km.stat[node].Owner, km.dataset[i])

\* After the centroids moved, UpdateTree pruned a point of a node it did not
\* prune and statically pruned a node owned by one cluster.
C12_Witness ==
  /\ km.pc = "updated"
  /\ km.iteration > 0
  /\ km.clusterDistances[km.K + 1] > 0
  /\ \E node \in DOMAIN km.T :
       /\ ~km.stat[node].StaticPruned
       /\ \E i \in Descendants(km.T, node) : km.prunedPoints[i]
  /\ \E node \in DOMAIN km.T :
       km.stat[node].StaticPruned /\ km.stat[node].Owner \in 1..km.K

\* The bounds and marks UpdateTree works on.
UpdateTreeState(s) == <<s.stat, s.upperBounds, s.lowerBounds, s.prunedPoints>>

\* C27: whenever the traversal is about to start, visited is false for
\* every point and the root's Pruned is 0; the first Iterate call leaves
\* the bounds and marks of the tree alone, every later call runs UpdateTree
\* on the visited flags the traversal before left; and CoalesceTree starts
\* from the state UpdateTree left, changing none of its bounds and marks.
C27_TraversalStartsClean ==
  /\ [](km.pc = "coalesced" =>
          /\ \A i \in DOMAIN km.visited : ~km.visited[i]
          /\ km.stat[1].Pruned = 0)
  /\ [][/\ (km.pc = "ready" /\ km'.pc # "ready") =>
             IF km.iteration = 0
             THEN UpdateTreeState(km') = UpdateTreeState(km)
             ELSE LET u == UpdateAtBegin(km)
                  IN  UpdateTreeState(km') = UpdateTreeState(u)
        /\ km'.pc = "coalesced" =>
             /\ km.pc = "updated"
             /\ UpdateTreeState(km') =
                  UpdateTreeState([km EXCEPT !.stat[1].Pruned = 0])
        /\ km'.visited # km.visited =>
             \/ km.pc = "coalesced" /\ km'.pc = "traversed"
             \/ km.pc = "ready" /\ km.iteration > 0]_vars

\* The traversal of the second Iterate call is about to start: UpdateTree
\* marked a point pruned, which it does for visited points only in that
\* call, and the flags are false again.
C27_Witness ==
  /\ km.pc = "coalesced"
  /\ km.iteration = 1
  /\ \E i \in DOMAIN km.prunedPoints : km.prunedPoints[i]
  /\ \A i \in DOMAIN km.visited : ~km.visited[i]
  /\ km.stat[1].Pruned = 0

\* C26: after UpdateTree every node it does not leave statically pruned has
\* UpperBound = LowerBound = DBL_MAX, Pruned = size_t(-1) and the invalid
\* owner, and every point the node holds is either marked pruned with its
\* upper bound below its lower bound, or not marked pruned with both bounds
\* DBL_MAX.
C26_UnprunedNodeIsReset ==
  (km.pc = "updated" /\ km.iteration > 0) =>
    \A node \in DOMAIN km.T :
      ~km.stat[node].StaticPruned =>
        /\ km.stat[node].UpperBound = DBL_MAX
        /\ km.stat[node].LowerBound = DBL_MAX
        /\ km.stat[node].Pruned = SIZE_MAX
        /\ km.stat[node].Owner = km.K + 1
        /\ \A i \in NodePoints(km.T, node) :
             \/ km.prunedPoints[i] /\ km.upperBounds[i] < km.lowerBounds[i]
             \/ /\ ~km.prunedPoints[i]
                /\ km.upperBounds[i] = DBL_MAX
                /\ km.lowerBounds[i] = DBL_MAX

\* UpdateTree left a leaf unpruned that holds a point it marked pruned and
\* a point it could not prune, after the centroids moved, and left another
\* node statically pruned.
C26_Witness ==
  /\ km.pc = "updated"
  /\ km.iteration > 0
  /\ km.clusterDistances[km.K + 1] > 0
  /\ \E node \in DOMAIN km.T :
       /\ ~km.stat[node].StaticPruned
       /\ \E i, j \in NodePoints(km.T, node) :
            /\ km.prunedPoints[i] /\ km.upperBounds[i] < DBL_MAX
            /\ ~km.prunedPoints[j]
  /\ \E node \in DOMAIN km.T : km.stat[node].StaticPruned

(***************************************************************************)
(* DualTreeKMeansRules.  The query tree is built on the centroids, the     *)
(* reference tree on the dataset; `committed` counts, for every reference  *)
(* point, how often its coordinates were added to newCentroids.            *)
(***************************************************************************)
\* Number of points of the datasets given to the rules.
RlPoints == 4
\* Largest number of clusters.
RlClusters == 4
RlDataCoords == {0, 2, 4, 20}
RlCentroidCoords == {1, 2, 6, 9}
\* maxLeafSize of the reference tree, scaled down with the datasets.
RlLeafSize == 1
\* The iterations a traversal is started in: the first one, and a later one
\* that finds the distances and markers of the iteration before it.
RlIterations == {1, 2}
\* distances[] before the traversal: unset in the first iteration, afterwards
\* what the iteration before left (a point that sat on its centroid).
LeftOverDistance(iteration) == IF iteration = 1 THEN DBL_MAX ELSE 0

\* Nondecreasing sequences of n coordinates.
SortedInputs(n, coords) ==
  {d \in [1..n -> coords] : \A i \in 1..(n - 1) : d[i] <= d[i + 1]}

(***************************************************************************)
(* Datasets of more than one row.  A dataset of one row is held as a       *)
(* sequence of numbers, a dataset of more rows as a sequence of columns;   *)
(* `rows` is dataset.n_rows.  The metric of these datasets is LMetric<1>   *)
(* and the bound of their trees HRectBound<1>: on one row they are Metric  *)
(* and the interval bound above.                                           *)
(***************************************************************************)
\* LMetric<1>::Evaluate: the sum of the absolute differences of the rows.
ManhattanDistance(a, b) ==
  LET S[k \in 0..Len(a)] == IF k = 0 THEN 0 ELSE S[k - 1] + Abs(a[k] - b[k])
  IN  S[Len(a)]

\* Row k of every column.
Row(data, k) == [i \in DOMAIN data |-> data[i][k]]

\* HRectBound |= of the columns begin .. begin+count-1: one range per row.
ColumnsBound(data, perm, begin, count) ==
  [k \in 1..Len(data[1]) |-> [lo |-> RangeLo(Row(data, k), perm, begin, count),
                              hi |-> RangeHi(Row(data, k), perm, begin, count)]]

\* The row the midpoint split cuts: the first of those the bound is widest in.
SplitDimension(bounds) ==
  CHOOSE k \in DOMAIN bounds :
    /\ \A j \in DOMAIN bounds :
         bounds[j].hi - bounds[j].lo <= bounds[k].hi - bounds[k].lo
    /\ \A j \in 1..(k - 1) :
         bounds[j].hi - bounds[j].lo < bounds[k].hi - bounds[k].lo

RECURSIVE SplitColumns(_, _, _, _, _, _)
\* BinarySpaceTree::SplitNode on columns: SplitNode above, with the bound of
\* every row and the split made in the widest row.
SplitColumns(data, st, begin, count, id, leafSize) ==
  LET bounds == ColumnsBound(data, st.perm, begin, count)
      k  == SplitDimension(bounds)
      me == id :> [begin |-> begin, count |-> count, bounds |-> bounds]
  IN  IF count <= leafSize \/ bounds[k].lo = bounds[k].hi
      THEN [perm |-> st.perm, nodes |-> st.nodes @@ me]
      ELSE LET sp == PerformSplit(Row(data, k), st.perm, begin, count,
                                  bounds[k].lo + bounds[k].hi)
               l  == SplitColumns(data, [perm |-> sp.perm, nodes |-> st.nodes @@ me],
                                  begin, sp.at - begin, 2 * id, leafSize)
           IN  SplitColumns(data, l, sp.at, begin + count - sp.at, 2 * id + 1, leafSize)

\* TreeType(dataset, oldFromNew) on a dataset of columns.
BuildColumnTree(data, leafSize) ==
  SplitColumns(data, [perm |-> [i \in 1..Len(data) |-> i], nodes |-> <<>>],
               1, Len(data), 1, leafSize)

\* HRectBound<1>::MinDistance(other): the gaps of the rows added up.
ColumnsMinDistance(a, b) ==
  LET S[k \in 0..Len(a)] == IF k = 0 THEN 0 ELSE S[k - 1] + BoundMinDistance(a[k], b[k])
  IN  S[Len(a)]

\* HRectBound<1>::MaxDistance(other): the largest differences of the rows
\* added up.
ColumnsMaxDistance(a, b) ==
  LET S[k \in 0..Len(a)] == IF k = 0 THEN 0 ELSE S[k - 1] + BoundMaxDistance(a[k], b[k])
  IN  S[Len(a)]

\* metric.Evaluate(centroids.col(queryIndex), dataset.col(referenceIndex))
Evaluate(s, a, b) ==
  IF s.rows = 1 THEN Metric(a, b) ELSE ManhattanDistance(a, b)

\* referenceNode.RangeDistance(&queryNode)
RangeDistance(s, r, q) ==
  IF s.rows = 1
  THEN [lo |-> BoundMinDistance(s.R[r], s.Q[q]),
        hi |-> BoundMaxDistance(s.R[r], s.Q[q])]
  ELSE [lo |-> ColumnsMinDistance(s.R[r].bounds, s.Q[q].bounds),
        hi |-> ColumnsMaxDistance(s.R[r].bounds, s.Q[q].bounds)]

\* newCentroids.col(cluster) += dataset.col(index)
AddColumn(s, sum, col) ==
  IF s.rows = 1 THEN sum + col ELSE [k \in DOMAIN col |-> sum[k] + col[k]]

\* DualTreeKMeansStatistic(node), lines 19-29: clustersPruned is size_t(-1)
\* in every node, the root included, and both distances are DBL_MAX.  owner
\* has no initialiser.
RlInitialStat(node) ==
  [ClustersPruned |-> SIZE_MAX, Owner |-> Indeterminate,
   MinQueryNodeDistance |-> DBL_MAX, MaxQueryNodeDistance |-> DBL_MAX]

\* The members Score uses that the statistic does not declare, as a
\* traversal finds them: the node is not Hamerly pruned and no second-closest
\* query node has been seen.
RulesMembers(st) ==
  st @@ [HamerlyPruned |-> FALSE,
         SecondMinQueryNodeDistance |-> DBL_MAX,
         SecondMaxQueryNodeDistance |-> DBL_MAX]

\* The statistic of `node` when the traversal starts.  Score, line 118: the
\* ClustersPruned of the root is set to 0 before the traversal.
RlTraversalStat(node) ==
  LET st == RulesMembers(RlInitialStat(node))
  IN  IF node = 1 THEN [st EXCEPT !.ClustersPruned = 0] ELSE st

\* newCentroids.col(cluster) += dataset.col(index); ++counts(cluster)
Commit(s, index, cluster) ==
  [s EXCEPT !.newCentroids[cluster] = AddColumn(s, @, s.dataset[index]),
            !.counts[cluster] = @ + 1,
            !.committed[index] = @ + 1]

RECURSIVE CommitDescendants(_, _, _, _)
\* Score, lines 173-180: every descendant goes to its assigned cluster.
CommitDescendants(s, r, index, last) ==
  IF index > last THEN s
  ELSE CommitDescendants(
         Commit([s EXCEPT !.stat[r].Owner = s.assignments[index]],
                index, s.assignments[index]),
         r, index + 1, last)

\* Score, lines 128-131, without the assignment of line 131 that marks the
\* node as committed.
CommitToOwnerUnmarked(s, r) ==
  [s EXCEPT !.newCentroids[s.stat[r].Owner] = @ + DescendantSum(s.dataset, s.R, r),
            !.counts[s.stat[r].Owner] = @ + NumDescendants(s.R, r),
            !.committed = [i \in DOMAIN s.committed |->
                             IF i \in Descendants(s.R, r) THEN s.committed[i] + 1
                             ELSE s.committed[i]]]

\* Score, lines 128-131: NumDescendants() * Centroid() goes to the owner.
CommitToOwner(s, r) ==
  [s EXCEPT !.newCentroids[s.stat[r].Owner] = @ + DescendantSum(s.dataset, s.R, r),
            !.counts[s.stat[r].Owner] = @ + NumDescendants(s.R, r),
            !.committed = [i \in DOMAIN s.committed |->
                             IF i \in Descendants(s.R, r) THEN s.committed[i] + 1
                             ELSE s.committed[i]],
            !.stat[r].MinQueryNodeDistance = 0]

\* BaseCase, lines 73-83, taking every evaluated distance as the best one.
UpdateBestOverwrite(s, distance, queryIndex, referenceIndex) ==
  [s EXCEPT !.distanceIteration[referenceIndex] = s.iteration,
            !.distances[referenceIndex] = distance,
            !.assignments[referenceIndex] = s.mappings[queryIndex]]

\* BaseCase, lines 73-83, with a distance equal to the best one taken too.
UpdateBestOnTie(s, distance, queryIndex, referenceIndex) ==
  IF s.distanceIteration[referenceIndex] < s.iteration \/ distance <= s.distances[referenceIndex]
  THEN [s EXCEPT !.distanceIteration[referenceIndex] = s.iteration,
                 !.distances[referenceIndex] = distance,
                 !.assignments[referenceIndex] = s.mappings[queryIndex]]
  ELSE s

\* BaseCase, lines 73-83: the best distance of the point and its cluster.
UpdateBest(s, distance, queryIndex, referenceIndex) ==
  IF s.distanceIteration[referenceIndex] < s.iteration
  THEN [s EXCEPT !.distanceIteration[referenceIndex] = s.iteration,
                 !.distances[referenceIndex] = distance,
                 !.assignments[referenceIndex] = s.mappings[queryIndex]]
  ELSE IF distance < s.distances[referenceIndex]
  THEN [s EXCEPT !.distances[referenceIndex] = distance,
                 !.assignments[referenceIndex] = s.mappings[queryIndex]]
  ELSE s

\* DualTreeKMeansRules::BaseCase.  Line 63 reads through LastReferenceNode()
\* without the test of line 54.  `evaluated` keeps, for every point, the
\* distances the calls of this traversal evaluated and their clusters.
RlBaseCase(s, queryIndex, referenceIndex) ==
  IF s.ti.lastReferenceNode = NULL THEN [s EXCEPT !.pc = "crashed"]
  ELSE
    LET traversalPruned == s.stat[s.ti.lastReferenceNode].ClustersPruned
        distance == Evaluate(s, s.centroids[queryIndex], s.dataset[referenceIndex])
        s1 == UpdateBest(s, distance, queryIndex, referenceIndex)
        s2 == [s1 EXCEPT !.visited[referenceIndex] = @ + 1,
                         !.evaluated[referenceIndex] =
                            Append(@, [distance |-> distance,
                                       cluster |-> s.mappings[queryIndex]])]
    IN  IF traversalPruned + s.visited[referenceIndex] = s.K THEN s
        ELSE IF s2.visited[referenceIndex] + traversalPruned = s.K
        THEN Commit(s2, referenceIndex, s2.assignments[referenceIndex])
        ELSE s2

\* The test of line 161 with the lower end of the second-closest node in
\* the place of its upper end.
PellegMoorePrunesOnMin(st, lo) == lo > st.SecondMinQueryNodeDistance

\* Score, line 161: the query node is farther than the second-closest one.
PellegMoorePrunes(st, lo) == lo > st.SecondMaxQueryNodeDistance

\* Score, lines 168-169: is everything pruned?
BulkCommitDue(s, r) ==
  s.stat[r].ClustersPruned + s.visited[s.R[r].begin] = s.K

\* DualTreeKMeansRules::Score(queryNode, referenceNode): the state after the
\* call and the score it returns.  `pmPruned` keeps the pairs pruned by the
\* test of line 161 and `bulk` the nodes committed by lines 168-181 with the
\* visited counts and assignments of that moment.
ScoreNodes(s, q, r) ==
  LET s0 == IF s.stat[r].ClustersPruned = SIZE_MAX
            THEN [s EXCEPT !.stat[r].ClustersPruned =
                             s.stat[ParentNode(r)].ClustersPruned]
            ELSE s
      s1 == [s0 EXCEPT !.ti.lastReferenceNode = r]
      st == s0.stat[r]
      distances == RangeDistance(s, r, q)
      lo == distances.lo
      hi == distances.hi
      s2 == [s1 EXCEPT !.stat[r].ClustersPruned = @ + NumDescendants(s.Q, q),
                       !.pmPruned = @ \cup {<<q, r>>}]
  IN  IF st.HamerlyPruned
      THEN [st |-> IF st.MinQueryNodeDistance = DBL_MAX THEN CommitToOwner(s0, r) ELSE s0,
            score |-> DBL_MAX]
      ELSE IF lo < st.MinQueryNodeDistance
      THEN [st |-> [s1 EXCEPT
                      !.stat[r].SecondMinQueryNodeDistance = st.MinQueryNodeDistance,
                      !.stat[r].SecondMaxQueryNodeDistance = st.MaxQueryNodeDistance,
                      !.stat[r].MinQueryNodeDistance = lo,
                      !.stat[r].MaxQueryNodeDistance = hi],
            score |-> lo]
      ELSE IF lo < st.SecondMinQueryNodeDistance
      THEN [st |-> [s1 EXCEPT !.stat[r].SecondMinQueryNodeDistance = lo,
                              !.stat[r].SecondMaxQueryNodeDistance = hi],
            score |-> lo]
      ELSE IF PellegMoorePrunes(st, lo)
      THEN [st |-> IF BulkCommitDue(s2, r)
                   THEN CommitDescendants(
                          [s2 EXCEPT !.bulk = @ \cup {[r |-> r, visited |-> s2.visited,
                                                       pruned |-> s2.stat[r].ClustersPruned,
                                                       assignments |-> s2.assignments]}],
                          r, s.R[r].begin, s.R[r].begin + s.R[r].count - 1)
                   ELSE s2,
            score |-> DBL_MAX]
      ELSE [st |-> s1, score |-> lo]

\* One Score(queryNode, referenceNode) call; `scoreCalls` counts the calls
\* per reference node and `lastScore` keeps what the last call returned.
RlScore(s, q, r) ==
  LET res == ScoreNodes(s, q, r)
  IN  [st |-> [res.st EXCEPT !.scoreCalls[r] = @ + 1,
                             !.lastScore = [q |-> q, r |-> r, score |-> res.score]],
       score |-> res.score]

(***************************************************************************)
(* Specification SpecRules: one traversal of the centroid tree against the *)
(* dataset tree with DualTreeKMeansRules, one action per call the          *)
(* traverser makes to the rules.                                           *)
(***************************************************************************)
\* The rules and the statistics at the start of a traversal of the centroid
\* tree built on c against the tree built on the dataset d; `hamerly` gives
\* the owner of every reference node that is marked Hamerly pruned.
RlStart(d, c, iteration, hamerly) ==
  LET K   == Len(c)
      ref == BuildTree(d, RlLeafSize)
      qry == BuildTree(c, 1)
      ti0 == [lastReferenceNode |-> NULL]
  IN  [pc |-> "traversing", K |-> K, iteration |-> iteration, rows |-> 1,
       dataset |-> [i \in 1..RlPoints |-> d[ref.perm[i]]],
       centroids |-> [i \in 1..K |-> c[qry.perm[i]]],
       mappings |-> qry.perm, R |-> ref.nodes, Q |-> qry.nodes,
       stat |-> [node \in DOMAIN ref.nodes |->
                   IF node \in DOMAIN hamerly
                   THEN [RlTraversalStat(node) EXCEPT
                           !.HamerlyPruned = TRUE, !.Owner = hamerly[node]]
                   ELSE RlTraversalStat(node)],
       visited |-> [i \in 1..RlPoints |-> 0],
       distanceIteration |-> [i \in 1..RlPoints |-> iteration - 1],
       distances |-> [i \in 1..RlPoints |-> LeftOverDistance(iteration)],
       assignments |-> [i \in 1..RlPoints |-> 1],
       evaluated |-> [i \in 1..RlPoints |-> <<>>],
       newCentroids |-> [i \in 1..K |-> 0],
       counts |-> [i \in 1..K |-> 0],
       committed |-> [i \in 1..RlPoints |-> 0],
       scoreCalls |-> [node \in DOMAIN ref.nodes |-> 0],
       pmPruned |-> {}, bulk |-> {},
       lastScore |-> [q |-> NULL, r |-> NULL, score |-> 0],
       ti |-> ti0, stack |-> Expand(qry.nodes, ref.nodes, 1, 1, ti0)]

RlInit ==
  \E d \in SortedInputs(RlPoints, RlDataCoords) :
  \E K \in 2..RlClusters : \E c \in SortedInputs(K, RlCentroidCoords) :
  \E iteration \in RlIterations :
    rl = RlStart(d, c, iteration, <<>>)

RlTop(op) == rl.pc = "traversing" /\ rl.stack # <<>> /\ rl.stack[1].op = op

\* Score(queryIndex, referenceNode) returns 0: the base cases follow.
RlPointScore ==
  /\ RlTop("pscore")
  /\ LET f == rl.stack[1]
     IN  rl' = [rl EXCEPT !.ti = f.info,
                          !.stack = [j \in 1..rl.R[f.r].count |->
                                       Frame("base", f.q, rl.R[f.r].begin + j - 1,
                                             f.info, 0, f.info)] \o Tail(rl.stack)]
  /\ UNCHANGED <<ct, lm, km>>

\* One BaseCase(queryIndex, referenceIndex) call.
RlBase ==
  /\ RlTop("base")
  /\ LET f == rl.stack[1]
         s == RlBaseCase(rl, f.q, f.r)
     IN  rl' = IF s.pc = "crashed" THEN s ELSE [s EXCEPT !.stack = Tail(rl.stack)]
  /\ UNCHANGED <<ct, lm, km>>

\* Descent of the query side only: Score(query child, referenceNode).
RlQueryScore ==
  /\ RlTop("qscore")
  /\ LET f   == rl.stack[1]
         res == RlScore([rl EXCEPT !.ti = f.info], f.q, f.r)
     IN  rl' = [res.st EXCEPT
                  !.stack = IF res.score = DBL_MAX THEN Tail(rl.stack)
                            ELSE Expand(rl.Q, rl.R, f.q, f.r, res.st.ti) \o Tail(rl.stack)]
  /\ UNCHANGED <<ct, lm, km>>

\* Score(queryNode, left reference child); its traversal info is kept.
RlScoreLeft ==
  /\ RlTop("s1")
  /\ LET f   == rl.stack[1]
         res == RlScore([rl EXCEPT !.ti = f.info], f.q, Left(f.r))
     IN  rl' = [res.st EXCEPT !.stack =
                  <<Frame("s2", f.q, f.r, f.info, res.score, res.st.ti)>>
                    \o Tail(rl.stack)]
  /\ UNCHANGED <<ct, lm, km>>

\* Score(queryNode, right reference child), then the better child first.
RlScoreRight ==
  /\ RlTop("s2")
  /\ LET f   == rl.stack[1]
         res == RlScore([rl EXCEPT !.ti = f.info], f.q, Right(f.r))
     IN  rl' = [res.st EXCEPT
                  !.stack = Settle(rl.Q, rl.R,
                              RecursionOrder(f, f.score, f.sinfo, res.score, res.st.ti)
                                \o Tail(rl.stack))]
  /\ UNCHANGED <<ct, lm, km>>

\* Rescore returns the old score.
RlRescore ==
  /\ RlTop("resc")
  /\ LET f == rl.stack[1]
     IN  rl' = [rl EXCEPT
                  !.stack = IF f.score = DBL_MAX THEN Tail(rl.stack)
                            ELSE Expand(rl.Q, rl.R, f.q, f.r, f.info) \o Tail(rl.stack)]
  /\ UNCHANGED <<ct, lm, km>>

\* The traverser returns.
RlReturn ==
  /\ rl.pc = "traversing" /\ rl.stack = <<>>
  /\ rl' = [rl EXCEPT !.pc = "done"]
  /\ UNCHANGED <<ct, lm, km>>

InitRules == RlInit /\ ct = CtOff /\ lm = LmOff /\ km = KmOff
NextRules ==
  \/ RlPointScore \/ RlBase \/ RlQueryScore \/ RlScoreLeft \/ RlScoreRight
  \/ RlRescore \/ RlReturn
SpecRules == InitRules /\ [][NextRules]_vars

\* C3: when the traversal has returned, every reference point has been
\* added to newCentroids and counts exactly once, and at no moment more
\* than once.
C3_CommittedExactlyOnce ==
  /\ \A i \in 1..RlPoints : rl.committed[i] <= 1
  /\ rl.pc = "done" => \A i \in 1..RlPoints : rl.committed[i] = 1

\* The reference nodes that hold a point and have been scored.
ScoredNodesOf(s, i) ==
  {r \in DOMAIN s.R : i \in Descendants(s.R, r) /\ s.stat[r].ClustersPruned # SIZE_MAX}

\* C10: at every moment, for every reference node and every descendant
\* point of it, ClustersPruned plus the point's visited count is at most
\* the number of clusters, and the point has been committed exactly if the
\* sum has reached that number for one of the nodes that hold it.
C10_PrunedPlusVisited ==
  \A i \in 1..RlPoints :
    /\ \A r \in ScoredNodesOf(rl, i) :
         rl.stat[r].ClustersPruned + rl.visited[i] <= rl.K
    /\ rl.committed[i] > 0 <=>
         \E r \in ScoredNodesOf(rl, i) :
           rl.stat[r].ClustersPruned + rl.visited[i] = rl.K

\* C11: within one traversal no step lowers the ClustersPruned counter of
\* a reference node that has one (a node without one takes its parent's),
\* and no step raises the best distance of a point that was set in this
\* iteration.
C11_CountersAndDistancesMonotone ==
  [][/\ \A r \in DOMAIN rl.R :
          rl.stat[r].ClustersPruned # SIZE_MAX =>
            /\ rl'.stat[r].ClustersPruned # SIZE_MAX
            /\ rl'.stat[r].ClustersPruned >= rl.stat[r].ClustersPruned
     /\ \A i \in 1..RlPoints :
          rl.distanceIteration[i] = rl.iteration =>
            /\ rl'.distanceIteration[i] = rl.iteration
            /\ rl'.distances[i] <= rl.distances[i]]_vars

\* A node below the root has pruned clusters beyond those it took from its
\* parent, and a point has had its best distance lowered by a later call.
C11_Witness ==
  /\ rl.pc = "done"
  /\ \E r \in DOMAIN rl.R \ {1} :
       /\ rl.stat[r].ClustersPruned # SIZE_MAX
       /\ rl.stat[r].ClustersPruned > rl.stat[ParentNode(r)].ClustersPruned
  /\ \E i \in 1..RlPoints :
       /\ Len(rl.evaluated[i]) >= 2
       /\ rl.distances[i] < rl.evaluated[i][1].distance

\* The centroid with the original index a.
CentroidOf(s, a) == s.centroids[CHOOSE j \in 1..s.K : s.mappings[j] = a]

\* C18: for every pair of a centroid node and a reference node that Score
\* has pruned by the Pelleg-Moore test, every centroid of the centroid node
\* is farther from every descendant point of the reference node than some
\* other centroid is, so it is not a nearest centroid of that point.
C18_PellegMoorePruneIsSound ==
  \A pair \in rl.pmPruned :
    \A c \in Descendants(rl.Q, pair[1]) : \A i \in Descendants(rl.R, pair[2]) :
      \E o \in 1..rl.K :
        Metric(rl.dataset[i], rl.centroids[o]) < Metric(rl.dataset[i], rl.centroids[c])

\* Score pruned a centroid node holding two centroids for a reference node
\* holding two points, and a single centroid for another reference node.
C18_Witness ==
  /\ \E pair \in rl.pmPruned :
       /\ NumDescendants(rl.Q, pair[1]) >= 2
       /\ NumDescendants(rl.R, pair[2]) >= 2
  /\ \E pair \in rl.pmPruned :
       /\ NumDescendants(rl.Q, pair[1]) = 1
       /\ rl.stat[pair[2]].ClustersPruned >= 2

\* The centroids by their index before the centroid tree reordered them.
OriginalCentroids(s) == [o \in 1..s.K |-> CentroidOf(s, o)]

PlDataCoords == {0, 1, 3}
PlDataColumns == PlDataCoords \X PlDataCoords
\* The values of the first and of the second row of the centroids.
PlCentroidFirst == {0, 2}
PlCentroidSecond == {0, 2, 3}
PlCentroidColumns == PlCentroidFirst \X PlCentroidSecond

\* a comes before b: by the first row, then by the second.
ColumnBefore(a, b) == a[1] < b[1] \/ (a[1] = b[1] /\ a[2] < b[2])

\* Sequences of n different columns, in that order.
OrderedColumns(n, columns) ==
  {d \in [1..n -> columns] : \A i \in 1..(n - 1) : ColumnBefore(d[i], d[i + 1])}

\* The rules and the statistics at the start of the first traversal of the
\* centroid tree built on the columns c against the tree built on the
\* columns d: RlStart on columns.
PlStart(d, c) ==
  LET K   == Len(c)
      n   == Len(d)
      ref == BuildColumnTree(d, RlLeafSize)
      qry == BuildColumnTree(c, 1)
      ti0 == [lastReferenceNode |-> NULL]
  IN  [pc |-> "traversing", K |-> K, iteration |-> 1, rows |-> Len(d[1]),
       dataset |-> [i \in 1..n |-> d[ref.perm[i]]],
       centroids |-> [i \in 1..K |-> c[qry.perm[i]]],
       mappings |-> qry.perm, R |-> ref.nodes, Q |-> qry.nodes,
       stat |-> [node \in DOMAIN ref.nodes |-> RlTraversalStat(node)],
       visited |-> [i \in 1..n |-> 0],
       distanceIteration |-> [i \in 1..n |-> 0],
       distances |-> [i \in 1..n |-> LeftOverDistance(1)],
       assignments |-> [i \in 1..n |-> 1],
       evaluated |-> [i \in 1..n |-> <<>>],
       newCentroids |-> [i \in 1..K |-> [k \in 1..Len(d[1]) |-> 0]],
       counts |-> [i \in 1..K |-> 0],
       committed |-> [i \in 1..n |-> 0],
       scoreCalls |-> [node \in DOMAIN ref.nodes |-> 0],
       pmPruned |-> {}, bulk |-> {},
       lastScore |-> [q |-> NULL, r |-> NULL, score |-> 0],
       ti |-> ti0, stack |-> Expand(qry.nodes, ref.nodes, 1, 1, ti0)]

PlInit ==
  \E d \in OrderedColumns(RlPoints, PlDataColumns) :
  \E c \in OrderedColumns(RlClusters, PlCentroidColumns) :
    rl = PlStart(d, c)

InitPlane == PlInit /\ ct = CtOff /\ lm = LmOff /\ km = KmOff
SpecPlane == InitPlane /\ [][NextRules]_vars

\* C19: whenever Score's Pelleg-Moore branch has committed a reference node
\* in bulk, every descendant point of the node had, at that moment, a
\* visited count that with the node's ClustersPruned makes the cluster
\* count, and an assignment that is a nearest centroid of the point.
C19_BulkCommitSettled ==
  \A b \in rl.bulk :
    \A i \in Descendants(rl.R, b.r) :
      /\ b.visited[i] + b.pruned = rl.K
      /\ \A o \in 1..rl.K :
           Evaluate(rl, rl.dataset[i], CentroidOf(rl, b.assignments[i]))
             <= Evaluate(rl, rl.dataset[i], rl.centroids[o])

\* The first of the evaluations `ev` that has the least distance.
FirstMinimum(ev) ==
  LET j == CHOOSE k \in 1..Len(ev) :
             /\ \A m \in 1..Len(ev) : ev[k].distance <= ev[m].distance
             /\ \A m \in 1..(k - 1) : ev[m].distance > ev[k].distance
  IN  ev[j]

\* C20: for every reference point that BaseCase calls of this traversal have
\* evaluated a distance for, distances[point] is the least of those
\* distances, assignments[point] is the mapped index of the first centroid
\* that gave it, and the point is marked with this iteration; what an
\* earlier iteration left in distances[point] plays no part.
C20_BestOfEvaluated ==
  \A i \in 1..RlPoints :
    rl.evaluated[i] # <<>> =>
      /\ rl.distanceIteration[i] = rl.iteration
      /\ rl.distances[i] = FirstMinimum(rl.evaluated[i]).distance
      /\ rl.assignments[i] = FirstMinimum(rl.evaluated[i]).cluster

\* In a later iteration a point has been evaluated against three centroids,
\* two of them at the same least distance, which is larger than the distance
\* the iteration before left, and the best distance was lowered on the way.
C20_Witness ==
  /\ rl.iteration > 1
  /\ \E i \in 1..RlPoints :
       LET ev == rl.evaluated[i]
       IN  /\ Len(ev) >= 3
           /\ rl.distances[i] > LeftOverDistance(rl.iteration)
           /\ ev[1].distance > rl.distances[i]
           /\ \E j, k \in 1..Len(ev) :
                /\ j < k
                /\ ev[j].distance = rl.distances[i]
                /\ ev[k].distance = rl.distances[i]
                /\ ev[j].cluster # ev[k].cluster

(***************************************************************************)
(* Specification SpecHamerly: the same traversal, started with one         *)
(* reference node below the root marked Hamerly pruned and owned by one    *)
(* cluster.                                                                *)
(***************************************************************************)
RhDataCoords == {0, 2, 20}
\* Largest number of clusters of these traversals.
RhClusters == 3

RhInit ==
  \E d \in SortedInputs(RlPoints, RhDataCoords) :
  \E K \in 2..RhClusters : \E c \in SortedInputs(K, RlCentroidCoords) :
  \E node \in DOMAIN BuildTree(d, RlLeafSize).nodes \ {1} : \E owner \in 1..K :
    rl = RlStart(d, c, 1, node :> owner)

InitHamerly == RhInit /\ ct = CtOff /\ lm = LmOff /\ km = KmOff
SpecHamerly == InitHamerly /\ [][NextRules]_vars

\* C17: every Score call on a reference node marked Hamerly pruned returns
\* DBL_MAX; the first one adds the sum of the node's descendant points
\* (Centroid times NumDescendants) to newCentroids of the node's owner and
\* NumDescendants to its count, and every later one leaves newCentroids
\* and counts as they are.
C17_HamerlyCommitsOnce ==
  [][\A r \in DOMAIN rl.R :
       (rl.stat[r].HamerlyPruned /\ rl'.scoreCalls[r] = rl.scoreCalls[r] + 1) =>
         /\ rl'.lastScore.r = r
         /\ rl'.lastScore.score = DBL_MAX
         /\ IF rl.scoreCalls[r] = 0
            THEN /\ rl'.newCentroids =
                      [rl.newCentroids EXCEPT ![rl.stat[r].Owner] =
                                                @ + DescendantSum(rl.dataset, rl.R, r)]
                 /\ rl'.counts =
                      [rl.counts EXCEPT ![rl.stat[r].Owner] = @ + NumDescendants(rl.R, r)]
            ELSE /\ rl'.newCentroids = rl.newCentroids
                 /\ rl'.counts = rl.counts]_vars

\* The traversal has returned after three Score calls on a Hamerly pruned
\* node that holds two points.
C17_Witness ==
  /\ rl.pc = "done"
  /\ \E r \in DOMAIN rl.R :
       /\ rl.stat[r].HamerlyPruned
       /\ rl.scoreCalls[r] >= 3
       /\ NumDescendants(rl.R, r) >= 2
       /\ rl.counts[rl.stat[r].Owner] >= 2

(***************************************************************************)
(* The constructor of DualTreeKMeansStatistic.  BinarySpaceTree builds the *)
(* statistic of a node after the node's children, so the constructor reads *)
(* the centroids stored in the children.  A centroid is a fraction         *)
(* num / den, which keeps the division by the number of descendants exact. *)
(***************************************************************************)
DsPoints == 5
DsLeafSizes == {1, 2}
DsCoords == {0, 1, 3, 7}

Rat(n, d) == [num |-> n, den |-> d]
\* centroid += x, for a point x
RatAddPoint(c, x) == Rat(c.num + x * c.den, c.den)
\* centroid += w * other
RatAddScaled(c, w, other) == Rat(c.num * other.den + w * other.num * c.den, c.den * other.den)
\* centroid /= n
RatDivide(c, n) == Rat(c.num, c.den * n)

\* The loop over the points the node holds itself.
RECURSIVE AddOwnPoints(_, _, _, _)
AddOwnPoints(c, data, first, last) ==
  IF first > last THEN c
  ELSE AddOwnPoints(RatAddPoint(c, data[first]), data, first + 1, last)

\* The constructor with every child centroid counted once, whatever the
\* number of descendants of the child.
StatisticUnweighted(T, data, stat, node) ==
  LET own  == IF IsLeaf(T, node)
              THEN AddOwnPoints(Rat(0, 1), data, T[node].begin,
                                T[node].begin + T[node].count - 1)
              ELSE Rat(0, 1)
      kids == IF IsLeaf(T, node) THEN own
              ELSE RatAddScaled(RatAddScaled(own, 1, stat[Left(node)]),
                                1, stat[Right(node)])
  IN  RatDivide(kids, NumDescendants(T, node))

\* DualTreeKMeansStatistic(node): the centroid it stores.
DualTreeKMeansStatistic(T, data, stat, node) ==
  LET own  == IF IsLeaf(T, node)
              THEN AddOwnPoints(Rat(0, 1), data, T[node].begin,
                                T[node].begin + T[node].count - 1)
              ELSE Rat(0, 1)
      kids == IF IsLeaf(T, node) THEN own
              ELSE RatAddScaled(RatAddScaled(own, NumDescendants(T, Left(node)),
                                             stat[Left(node)]),
                                NumDescendants(T, Right(node)), stat[Right(node)])
  IN  RatDivide(kids, NumDescendants(T, node))

\* The statistics of the subtree of `node`, children before their parent.
RECURSIVE BuildStatistics(_, _, _, _)
BuildStatistics(T, data, stat, node) ==
  LET below == IF IsLeaf(T, node) THEN stat
               ELSE BuildStatistics(T, data,
                      BuildStatistics(T, data, stat, Left(node)), Right(node))
  IN  below @@ (node :> DualTreeKMeansStatistic(T, data, below, node))

DsInit ==
  \E d \in [1..DsPoints -> DsCoords], leafSize \in DsLeafSizes :
    rl = [pc |-> "data", dataset |-> d, leafSize |-> leafSize]

\* TreeType(dataset) with DualTreeKMeansStatistic as the statistic.
DsBuild ==
  /\ rl.pc = "data"
  /\ LET built == BuildTree(rl.dataset, rl.leafSize)
         td    == [i \in 1..DsPoints |-> rl.dataset[built.perm[i]]]
     IN  rl' = [pc |-> "built", dataset |-> td, leafSize |-> rl.leafSize,
                T |-> built.nodes,
                Centroid |-> BuildStatistics(built.nodes, td, <<>>, 1)]
  /\ UNCHANGED <<ct, lm, km>>

InitStatistic == DsInit /\ ct = CtOff /\ lm = LmOff /\ km = KmOff
NextStatistic == DsBuild
SpecStatistic == InitStatistic /\ [][NextStatistic]_vars

\* C24: in a tree built with DualTreeKMeansStatistic the centroid stored in
\* a node, times the number of descendants of the node, is the sum of the
\* descendant points of the node.
C24_CentroidIsMean ==
  rl.pc = "built" =>
    \A n \in DOMAIN rl.T :
      /\ rl.Centroid[n].den # 0
      /\ rl.Centroid[n].num * NumDescendants(rl.T, n)
           = DescendantSum(rl.dataset, rl.T, n) * rl.Centroid[n].den

\* A built tree with an internal node below the root whose children hold
\* different numbers of points, and whose centroid is not a whole number.
C24_Witness ==
  /\ rl.pc = "built"
  /\ \E n \in DOMAIN rl.T :
       /\ n # 1
       /\ ~IsLeaf(rl.T, n)
       /\ NumDescendants(rl.T, Left(n)) # NumDescendants(rl.T, Right(n))
       /\ rl.Centroid[n].num % rl.Centroid[n].den # 0

(***************************************************************************)
(* CNN: the gradient storage between FeedForward, FeedBackward and         *)
(* ApplyGradients.  The network is the sequence of its connections, TRUE   *)
(* for a pooling connection; the storage has one slot for every            *)
(* connection that is not a pooling connection.  A gradient is one number, *)
(* kept as a fraction.  gradientNum counts from 0 as in the code, slot     *)
(* gradientNum of the code is gradients[gradientNum + 1] here.             *)
(***************************************************************************)
CnConnections == 3
CnInputs == 3
CnBatches == 2
CnGradientValues == {1, 2}
CnErrors == {0, 1}

\* Networks with at least one connection that has weights.
CnNetworks ==
  {n \in UNION {[1..k -> BOOLEAN] : k \in 1..CnConnections} :
     \E i \in DOMAIN n : ~n[i]}

\* InitLayer / Layer: one zero gradient for every non-pooling connection.
InitLayer(network) ==
  [j \in 1..Cardinality({i \in DOMAIN network : ~network[i]}) |-> Rat(0, 1)]

\* UpdateGradients / Gradients: gradients[gradientNum++] += gradient for
\* every non-pooling connection; g[j] is the gradient of the j-th of them.
Gradients(gradients, g) ==
  [j \in DOMAIN gradients |-> RatAddPoint(gradients[j], g[j])]

\* Apply on connection I and the connections after it.  `a` holds the
\* storage, gradientNum, the gradients handed to UpdateWeights so far, and
\* whether a slot outside the storage was accessed.
RECURSIVE Apply(_, _, _, _)
Apply(network, seqNum, a, I) ==
  IF I > Len(network) THEN a
  ELSE
    LET slot == a.gradientNum + 1
        a1 == IF seqNum > 1
              THEN IF slot \in DOMAIN a.gradients
                   THEN [a EXCEPT !.gradients[slot] = RatDivide(@, seqNum)]
                   ELSE [a EXCEPT !.outside = TRUE]
              ELSE a
        a2 == IF ~network[I]
              THEN [a1 EXCEPT !.applied = Append(@, a1.gradients[slot]),
                              !.gradients[slot] = Rat(0, 1),
                              !.gradientNum = @ + 1]
              ELSE a1
    IN  Apply(network, seqNum, a2, I + 1)

\* CNN(network, outputLayer), lines 47-51: trainError and seqNum are 0 and
\* the storage is empty; gradientNum has no initialiser and is assigned
\* first by FeedBackward or ApplyGradients.
CnInit ==
  \E n \in CnNetworks :
    ct = [pc |-> "idle", network |-> n, gradients |-> <<>>,
          gradientNum |-> Indeterminate,
          trainError |-> 0, seqNum |-> 0, batches |-> 0,
          before |-> <<>>, applied |-> <<>>, seqBefore |-> 0, outside |-> FALSE]

\* FeedForward(input, target, error)
CnFeedForward ==
  /\ ct.pc \in {"idle", "applied"}
  /\ ct.seqNum < CnInputs
  /\ ct.batches < CnBatches
  /\ \E e \in CnErrors :
       ct' = [ct EXCEPT !.pc = "forwarded", !.seqNum = @ + 1, !.trainError = @ + e]
  /\ UNCHANGED <<lm, km, rl>>

\* FeedBackward(error)
CnFeedBackward ==
  /\ ct.pc = "forwarded"
  /\ LET stored == IF Len(ct.gradients) = 0 THEN InitLayer(ct.network)
                   ELSE ct.gradients
     IN  \E g \in [DOMAIN stored -> CnGradientValues] :
           ct' = [ct EXCEPT !.pc = "idle", !.gradients = Gradients(stored, g),
                            !.gradientNum = Len(stored)]
  /\ UNCHANGED <<lm, km, rl>>

\* ApplyGradients().  An access to a slot outside the storage is undefined:
\* the call stops the program or goes on without a visible effect.
CnApplyGradients ==
  /\ ct.pc = "idle"
  /\ ct.seqNum >= 1
  /\ LET a == Apply(ct.network, ct.seqNum,
                    [gradients |-> ct.gradients, gradientNum |-> 0,
                     applied |-> <<>>, outside |-> FALSE], 1)
     IN  \E outcome \in IF a.outside THEN {"crashed", "applied"} ELSE {"applied"} :
           ct' = [ct EXCEPT !.pc = outcome, !.gradients = a.gradients,
                            !.gradientNum = a.gradientNum,
                            !.trainError = 0, !.seqNum = 0, !.batches = @ + 1,
                            !.before = ct.gradients, !.applied = a.applied,
                            !.seqBefore = ct.seqNum, !.outside = a.outside]
  /\ UNCHANGED <<lm, km, rl>>

InitCNN == CnInit /\ lm = LmOff /\ km = KmOff /\ rl = RlOff
NextCNN == CnFeedForward \/ CnFeedBackward \/ CnApplyGradients
SpecCNN == InitCNN /\ [][NextCNN]_vars

\* C25: ApplyGradients takes a mean gradient step: the gradient handed to
\* UpdateWeights for every non-pooling connection is the gradient
\* accumulated for it divided by the number of inputs, once; the stored
\* gradients are zero afterwards, no slot outside the storage is accessed,
\* and trainError and seqNum are 0.
C25_MeanGradientStep ==
  ct.pc \in {"applied", "crashed"} =>
    /\ ct.pc = "applied"
    /\ ~ct.outside
    /\ Len(ct.applied) = Len(ct.before)
    /\ \A j \in DOMAIN ct.before :
         /\ j \in DOMAIN ct.applied
         /\ ct.applied[j].num * ct.before[j].den * ct.seqBefore
              = ct.before[j].num * ct.applied[j].den
         /\ ct.gradients[j].num = 0
    /\ ct.trainError = 0
    /\ ct.seqNum = 0

====
